---- MODULE Spec2Model ----
(***************************************************************************)
(* A model of killercoda-cli: the step scanner, the renaming planner, the  *)
(* file-operation builders, the manifest (index.json) updater, the path    *)
(* security validator and the interactive insertion flow of main().        *)
(*                                                                         *)
(* Strings that the code takes apart (names, paths) are sequences of       *)
(* one-character strings, so that startswith, replace, int() and the       *)
(* f-strings are computed as the code computes them.                       *)
(***************************************************************************)
EXTENDS Integers, Sequences, FiniteSets, TLC

VARIABLES
    fs,                 \* the working directory: path -> node
    pc,                 \* position of main(): "idle", "exec", "done", "failed", "noindex"
    runs,               \* number of runs of main() started so far
    steps_dict,         \* main(): the step map of the current run
    insert_step_num,    \* main(): the validated insertion position
    step_type,          \* main(): the step type token typed by the user
    renaming_plan,      \* main(): plan_renaming's result
    file_operations,    \* main(): renaming_operations + new_step_operations
    op_idx,             \* execute_file_operations: index of the next operation
    current_index_data, \* main(): index.json as loaded, before the update
    updated_index_data, \* main(): calculate_index_json_updates' result
    fs0,                \* the working directory as it was when the run started
    error,              \* the error the run reported ("none" if none)
    fileop,             \* the result of the last FileOperation(...) construction
    result_dict,        \* the step map while a renaming plan is applied to it
    number_input,       \* main(): step_number_input, the position as typed
    argv                \* sys.argv, the command line of the run

vars == <<fs, pc, runs, steps_dict, insert_step_num, step_type, renaming_plan,
          file_operations, op_idx, current_index_data, updated_index_data,
          fs0, error, fileop, result_dict, number_input, argv>>

-----------------------------------------------------------------------------
(* Bounds of the model *)

\* the largest number of steps a scenario starts with
MaxSteps == 2
\* the largest number of insertion runs of main()
MaxRuns == 1
\* the largest number of pieces of a path handed to FileOperation(...)
MaxPathLen == 3
\* the largest number of pieces of the destination handed to a rename
MaxDestLen == 1

-----------------------------------------------------------------------------
(* Strings *)

S_step == <<"s", "t", "e", "p">>
S_md == <<".", "m", "d">>
S_background_sh == <<"b", "a", "c", "k", "g", "r", "o", "u", "n", "d", ".", "s", "h">>
S_foreground_sh == <<"f", "o", "r", "e", "g", "r", "o", "u", "n", "d", ".", "s", "h">>
S_verify_sh == <<"v", "e", "r", "i", "f", "y", ".", "s", "h">>
S_index_json == <<"i", "n", "d", "e", "x", ".", "j", "s", "o", "n">>
Empty == <<>>
\* An optional string (FileOperation.content, the text of a file): None, the
\* string s as Text(s), or a text that is a JSON document (see JsonDump)
None == [none |-> TRUE]
Text(s) == [str |-> s]

DigitChars == <<"0", "1", "2", "3", "4", "5", "6", "7", "8", "9">>
IsDigit(c) == \E d \in 1..10 : DigitChars[d] = c
DigitVal(c) == (CHOOSE d \in 1..10 : DigitChars[d] = c) - 1

\* str.startswith
StartsWith(s, p) == Len(p) <= Len(s) /\ SubSeq(s, 1, Len(p)) = p
\* str.endswith
EndsWith(s, p) == Len(p) <= Len(s) /\ SubSeq(s, Len(s) - Len(p) + 1, Len(s)) = p
\* the "in" operator on strings
Contains(s, p) == \E i \in 1..(Len(s) - Len(p) + 1) : SubSeq(s, i, i + Len(p) - 1) = p

\* str.replace(old, new): every non-overlapping occurrence, left to right
RECURSIVE Replace(_, _, _)
Replace(s, old, new) ==
    IF s = <<>> THEN <<>>
    ELSE IF StartsWith(s, old)
         THEN new \o Replace(SubSeq(s, Len(old) + 1, Len(s)), old, new)
         ELSE <<Head(s)>> \o Replace(Tail(s), old, new)

\* str(n) and the {n} of an f-string, for an integer n
RECURSIVE NatStr(_)
NatStr(n) == IF n < 10 THEN <<DigitChars[n + 1]>>
             ELSE NatStr(n \div 10) \o <<DigitChars[(n % 10) + 1]>>
Str(n) == IF n < 0 THEN <<"-">> \o NatStr(0 - n) ELSE NatStr(n)

\* str.strip() of blanks
RECURSIVE LStrip(_)
LStrip(s) == IF s # <<>> /\ Head(s) = " " THEN LStrip(Tail(s)) ELSE s
RECURSIVE RStrip(_)
RStrip(s) == IF s # <<>> /\ s[Len(s)] = " " THEN RStrip(SubSeq(s, 1, Len(s) - 1)) ELSE s

RECURSIVE DigitsVal(_, _)
DigitsVal(s, acc) == IF s = <<>> THEN acc
                     ELSE IF Head(s) = "_" THEN DigitsVal(Tail(s), acc)
                     ELSE DigitsVal(Tail(s), 10 * acc + DigitVal(Head(s)))

\* the digits part of an int() literal: digits, single underscores between them
IsDigitsLiteral(t) ==
    /\ t # <<>>
    /\ IsDigit(t[1]) /\ IsDigit(t[Len(t)])
    /\ \A i \in 1..Len(t) : IsDigit(t[i]) \/ t[i] = "_"
    /\ \A i \in 1..(Len(t) - 1) : ~(t[i] = "_" /\ t[i + 1] = "_")

\* int(s): [ok |-> TRUE, val |-> n], or ok = FALSE where int raises ValueError
IntParse(s) ==
    LET t == RStrip(LStrip(s))
        signed == t # <<>> /\ Head(t) \in {"+", "-"}
        body == IF signed THEN Tail(t) ELSE t
    IN  IF IsDigitsLiteral(body)
        THEN [ok |-> TRUE,
              val |-> IF signed /\ Head(t) = "-" THEN 0 - DigitsVal(body, 0)
                      ELSE DigitsVal(body, 0)]
        ELSE [ok |-> FALSE, val |-> 0]

\* os.path.isabs (POSIX)
IsAbs(p) == p # <<>> /\ Head(p) = "/"

\* os.path.join(a, b) (POSIX)
PathJoin(a, b) ==
    IF IsAbs(b) THEN b
    ELSE IF a = <<>> \/ a[Len(a)] = "/" THEN a \o b
    ELSE a \o <<"/">> \o b

\* the segments of a path between its slashes
RECURSIVE SplitSlash(_, _)
SplitSlash(p, cur) ==
    IF p = <<>> THEN <<cur>>
    ELSE IF Head(p) = "/" THEN <<cur>> \o SplitSlash(Tail(p), <<>>)
    ELSE SplitSlash(Tail(p), Append(cur, Head(p)))

RECURSIVE JoinSlash(_)
JoinSlash(segs) ==
    IF segs = <<>> THEN <<>>
    ELSE IF Len(segs) = 1 THEN segs[1]
    ELSE segs[1] \o <<"/">> \o JoinSlash(Tail(segs))

\* the directory part of a relative path (<<>> for a top-level name)
DirName(p) ==
    LET segs == SplitSlash(p, <<>>)
    IN  JoinSlash(SubSeq(segs, 1, Len(segs) - 1))

\* the first segment of a path
TopName(p) == SplitSlash(p, <<>>)[1]

-----------------------------------------------------------------------------
(* The working directory *)

\* os.path.normpath (POSIX), on the segments of the path
RECURSIVE NormSegs(_, _, _)
NormSegs(segs, out, rooted) ==
    IF segs = <<>> THEN out
    ELSE LET comp == Head(segs)
         IN  IF comp = <<>> \/ comp = <<".">> THEN NormSegs(Tail(segs), out, rooted)
             ELSE IF \/ comp # <<".", ".">>
                     \/ (~rooted /\ out = <<>>)
                     \/ (out # <<>> /\ out[Len(out)] = <<".", ".">>)
                  THEN NormSegs(Tail(segs), Append(out, comp), rooted)
                  ELSE IF out # <<>>
                       THEN NormSegs(Tail(segs), SubSeq(out, 1, Len(out) - 1), rooted)
                       ELSE NormSegs(Tail(segs), out, rooted)

NormPath(p) ==
    IF p = <<>> THEN <<".">>
    ELSE LET slashes == IF ~StartsWith(p, <<"/">>) THEN 0
                        ELSE IF StartsWith(p, <<"/", "/">>) /\ ~StartsWith(p, <<"/", "/", "/">>)
                             THEN 2 ELSE 1
             body == JoinSlash(NormSegs(SplitSlash(p, <<>>), <<>>, slashes > 0))
             path == (IF slashes = 2 THEN <<"/", "/">>
                      ELSE IF slashes = 1 THEN <<"/">> ELSE <<>>) \o body
         IN  IF path = <<>> THEN <<".">> ELSE path

\* permission bits: 0o755, and those of a file that open(path, "w") creates
Mode755 == 493
DefaultMode == 420
NoMode == -1

Dir == [kind |-> "dir", content |-> None, mode |-> Mode755]
File(content, mode) == [kind |-> "file", content |-> content, mode |-> mode]

Cwd == <<".">>

\* a symbolic link (it has no permission bits of its own)
Link(target) == [kind |-> "link", content |-> Text(target), mode |-> NoMode]
IsLink(f, k) == k \in DOMAIN f /\ f[k].kind = "link"
Links(f) == {k \in DOMAIN f : f[k].kind = "link"}

S_up == <<".", ".">>

\* os.path.realpath: the path is walked segment by segment, '..' steps up,
\* and a segment that is a link is replaced by its target (fuel bounds the
\* links followed; a link that cannot be followed any more is kept as a name)
RECURSIVE RealSegs(_, _, _, _)
RealSegs(f, segs, cur, fuel) ==
    IF segs = <<>> THEN cur
    ELSE LET comp == Head(segs)
             newpath == Append(cur, comp)
         IN  IF comp = <<>> \/ comp = <<".">> THEN RealSegs(f, Tail(segs), cur, fuel)
             ELSE IF comp = S_up
                  THEN IF cur = <<>> \/ cur[Len(cur)] = S_up
                       THEN RealSegs(f, Tail(segs), newpath, fuel)
                       ELSE RealSegs(f, Tail(segs), SubSeq(cur, 1, Len(cur) - 1), fuel)
             ELSE IF fuel > 0 /\ IsLink(f, JoinSlash(newpath))
                  THEN RealSegs(f, SplitSlash(f[JoinSlash(newpath)].content.str, <<>>)
                                       \o Tail(segs), cur, fuel - 1)
             ELSE RealSegs(f, Tail(segs), newpath, fuel)

RealPath(f, p) ==
    LET r == RealSegs(f, SplitSlash(p, <<>>), <<>>, Cardinality(Links(f)))
    IN  IF IsAbs(p) THEN NormPath(p)
        ELSE IF r = <<>> THEN Cwd ELSE JoinSlash(r)

\* resolved_path.startswith(current_dir + os.sep) or resolved_path == current_dir
InsideTree(r) == r = Cwd \/ SplitSlash(r, <<>>)[1] # S_up

\* os.path.exists, os.path.isdir and os.path.isfile follow symbolic links
Exists(f, p) == RealPath(f, p) = Cwd \/ RealPath(f, p) \in DOMAIN f
IsDir(f, p) == RealPath(f, p) = Cwd \/ (RealPath(f, p) \in DOMAIN f /\ f[RealPath(f, p)].kind = "dir")
IsFile(f, p) == RealPath(f, p) \in DOMAIN f /\ f[RealPath(f, p)].kind = "file"
\* the directory holding p exists
ParentIsDir(f, p) == IsDir(f, DirName(NormPath(p)))

Under(k, d) == k = d \/ StartsWith(k, d \o <<"/">>)
Children(f, d) == {k \in DOMAIN f : k # d /\ Under(k, d)}

\* the names os.listdir(".") returns, in no particular order
TopLevel(f) == {k \in DOMAIN f : ~Contains(k, <<"/">>) /\ k # S_up}

Put(f, k, node) == [x \in DOMAIN f \cup {k} |-> IF x = k THEN node ELSE f[x]]
Remove(f, ks) == [x \in DOMAIN f \ ks |-> f[x]]

\* the prefixes a/b, a/b/c, ... of a normalised relative path
Prefixes(k) ==
    LET segs == SplitSlash(k, <<>>)
    IN  {JoinSlash(SubSeq(segs, 1, i)) : i \in 1..Len(segs)}

\* os.makedirs(path, exist_ok=True)
MakeDirs(f, p) ==
    LET k == NormPath(p)
        pre == IF k = Cwd THEN {} ELSE Prefixes(k)
    IN  IF \E q \in pre : IsFile(f, q)
        THEN [ok |-> FALSE, fs |-> f, err |-> "FileExistsError"]
        ELSE [ok |-> TRUE,
              fs |-> [x \in DOMAIN f \cup pre |-> IF x \in DOMAIN f THEN f[x] ELSE Dir],
              err |-> "none"]

\* with open(path, "w") as file: file.write(content)
WriteFile(f, p, content) ==
    LET k == NormPath(p)
    IN  IF ~ParentIsDir(f, p) THEN [ok |-> FALSE, fs |-> f, err |-> "FileNotFoundError"]
        ELSE IF IsDir(f, p) THEN [ok |-> FALSE, fs |-> f, err |-> "IsADirectoryError"]
        ELSE LET mode == IF k \in DOMAIN f THEN f[k].mode ELSE DefaultMode
             IN  IF content = None
                 THEN [ok |-> FALSE, fs |-> Put(f, k, File(Text(Empty), mode)), err |-> "TypeError"]
                 ELSE [ok |-> TRUE, fs |-> Put(f, k, File(content, mode)), err |-> "none"]

\* os.chmod(path, mode)
Chmod(f, p, mode) ==
    LET k == NormPath(p)
    IN  IF mode = NoMode THEN [ok |-> FALSE, fs |-> f, err |-> "TypeError"]
        ELSE IF k \notin DOMAIN f THEN [ok |-> FALSE, fs |-> f, err |-> "FileNotFoundError"]
        ELSE [ok |-> TRUE, fs |-> Put(f, k, [f[k] EXCEPT !.mode = mode]), err |-> "none"]

\* os.rename(src, dst)
Rename(f, src, content) ==
    LET dst == IF content = None THEN Empty ELSE content.str
        s == NormPath(src)
        d == NormPath(dst)
        Moved(k) == d \o SubSeq(k, Len(s) + 1, Len(k))
    IN  IF content = None THEN [ok |-> FALSE, fs |-> f, err |-> "TypeError"]
        ELSE IF dst = Empty \/ src = Empty \/ s \notin DOMAIN f \/ ~ParentIsDir(f, dst)
             THEN [ok |-> FALSE, fs |-> f, err |-> "FileNotFoundError"]
        ELSE IF s = d THEN [ok |-> TRUE, fs |-> f, err |-> "none"]
        ELSE IF f[s].kind # "dir"
             THEN IF d = Cwd \/ (d \in DOMAIN f /\ f[d].kind = "dir")
                  THEN [ok |-> FALSE, fs |-> f, err |-> "IsADirectoryError"]
                  ELSE [ok |-> TRUE, fs |-> Put(Remove(f, {s}), d, f[s]), err |-> "none"]
        ELSE IF d \in DOMAIN f /\ f[d].kind # "dir"
             THEN [ok |-> FALSE, fs |-> f, err |-> "NotADirectoryError"]
        ELSE IF d = Cwd \/ Children(f, d) # {} \/ Under(d, s)
             THEN [ok |-> FALSE, fs |-> f, err |-> "OSError"]
        ELSE LET sub == {k \in DOMAIN f : Under(k, s)}
                 rest == Remove(f, sub \cup {d})
             IN  [ok |-> TRUE,
                  fs |-> [x \in DOMAIN rest \cup {Moved(k) : k \in sub} |->
                            IF x \in DOMAIN rest THEN rest[x]
                            ELSE f[CHOOSE k \in sub : Moved(k) = x]],
                  err |-> "none"]

-----------------------------------------------------------------------------
(* Step management.  cli.py holds copies of these functions, which main()   *)
(* calls; they differ from step_management.py only in the FileOperation     *)
(* class they construct (cli.py's does not validate its paths).             *)

\* a FileOperation object: its four attributes
Op(operation, path, content, mode) ==
    [operation |-> operation, path |-> path, content |-> content, mode |-> mode]

EmptyDict == [k \in {} |-> Empty]
DictSet(d, k, v) == [x \in DOMAIN d \cup {k} |-> IF x = k THEN v ELSE d[x]]

\* the loop of get_current_steps_dict over the listing, from item i on
RECURSIVE ScanLoop(_, _, _, _)
ScanLoop(directory_items, i, d, f) ==
    IF i > Len(directory_items) THEN d
    ELSE LET item == directory_items[i]
             num == IntParse(Replace(Replace(item, S_step, Empty), S_md, Empty))
         IN  IF StartsWith(item, S_step) /\ (IsDir(f, item) \/ EndsWith(item, S_md)) /\ num.ok
             THEN ScanLoop(directory_items, i + 1, DictSet(d, num.val, item), f)
             ELSE ScanLoop(directory_items, i + 1, d, f)

GetCurrentStepsDict(directory_items, f) == ScanLoop(directory_items, 1, EmptyDict, f)

SetMax(S) == CHOOSE x \in S : \A y \in S : y <= x
SetMin(S) == CHOOSE x \in S : \A y \in S : x <= y
\* max(steps_dict.keys(), default=0)
HighestStepNum(d) == IF DOMAIN d = {} THEN 0 ELSE SetMax(DOMAIN d)

\* get_user_input with the test step_number <= highest_step_num
GetUserInputWithoutAppend(d, step_title_input, step_number_input) ==
    LET num == IntParse(step_number_input)
    IN  IF ~num.ok
        THEN [ok |-> FALSE, step_title |-> step_title_input, step_number |-> 0,
              err |-> <<"invalid literal for int() with base 10: ">> \o step_number_input]
        ELSE IF 1 <= num.val /\ num.val <= HighestStepNum(d)
        THEN [ok |-> TRUE, step_title |-> step_title_input, step_number |-> num.val,
              err |-> Empty]
        ELSE [ok |-> FALSE, step_title |-> step_title_input, step_number |-> num.val,
              err |-> <<"Invalid step number: ">> \o step_number_input
                      \o <<". Please enter a valid step number between 1 and ">>
                      \o Str(HighestStepNum(d) + 1) \o <<".">>]

\* get_user_input that forces every answer into the range
GetUserInputClamped(d, step_title_input, step_number_input) ==
    LET num == IntParse(step_number_input)
        highest_step_num == HighestStepNum(d)
    IN  [ok |-> TRUE, step_title |-> step_title_input,
         step_number |-> IF num.ok /\ 1 <= num.val /\ num.val <= highest_step_num + 1
                         THEN num.val ELSE highest_step_num + 1,
         err |-> Empty]

\* get_user_input: the title and the number, or the ValueError raised
GetUserInput(d, step_title_input, step_number_input) ==
    LET num == IntParse(step_number_input)
        highest_step_num == HighestStepNum(d)
    IN  IF ~num.ok
        THEN [ok |-> FALSE, step_title |-> step_title_input, step_number |-> 0,
              err |-> <<"invalid literal for int() with base 10: ">> \o step_number_input]
        ELSE IF 1 <= num.val /\ num.val <= highest_step_num + 1
        THEN [ok |-> TRUE, step_title |-> step_title_input, step_number |-> num.val,
              err |-> Empty]
        ELSE [ok |-> FALSE, step_title |-> step_title_input, step_number |-> num.val,
              err |-> <<"Invalid step number: ">> \o step_number_input
                      \o <<". Please enter a valid step number between 1 and ">>
                      \o Str(highest_step_num + 1) \o <<".">>]

\* sorted(keys)
RECURSIVE Sorted(_)
Sorted(S) == IF S = {} THEN <<>> ELSE <<SetMin(S)>> \o Sorted(S \ {SetMin(S)})

RECURSIVE Reverse(_)
Reverse(s) == IF s = <<>> THEN <<>> ELSE Append(Reverse(Tail(s)), Head(s))

\* the loop of plan_renaming over the sorted step numbers
RECURSIVE PlanLoop(_, _, _)
PlanLoop(d, sorted_step_nums, insert_at) ==
    IF sorted_step_nums = <<>> THEN <<>>
    ELSE LET step_num == Head(sorted_step_nums)
             rest == PlanLoop(d, Tail(sorted_step_nums), insert_at)
         IN  IF step_num >= insert_at
             THEN <<<<d[step_num], S_step \o Str(step_num + 1)>>>> \o rest
             ELSE rest

\* plan_renaming without its final reverse()
PlanRenamingAscending(d, insert_at) == PlanLoop(d, Sorted(DOMAIN d), insert_at)
\* plan_renaming with step_num > insert_step_num for its test
PlanRenamingAfter(d, insert_at) == Reverse(PlanLoop(d, Sorted(DOMAIN d), insert_at + 1))

\* plan_renaming
PlanRenaming(d, insert_at) == Reverse(PlanLoop(d, Sorted(DOMAIN d), insert_at))

\* calculate_renaming_operations creating the new directory after the renames
EntryOperationsMakedirsLast(old_name, new_name, f) ==
    LET Script(script) ==
            IF IsFile(f, PathJoin(old_name, script))
            THEN <<Op("rename", PathJoin(old_name, script),
                     Text(PathJoin(new_name, script)), NoMode)>>
            ELSE <<>>
        old_step_md == PathJoin(old_name, S_step \o Replace(old_name, S_step, Empty) \o S_md)
        new_step_md == PathJoin(new_name, S_step \o Replace(new_name, S_step, Empty) \o S_md)
    IN  (IF IsDir(f, old_name)
         THEN Script(S_background_sh) \o Script(S_foreground_sh) \o Script(S_verify_sh) \o
              (IF IsFile(f, old_step_md)
               THEN <<Op("rename", old_step_md, Text(new_step_md), NoMode)>> ELSE <<>>)
         ELSE <<Op("rename", old_name, Text(new_name \o S_md), NoMode)>>)
        \o <<Op("makedirs", new_name, None, NoMode)>>

\* the operations calculate_renaming_operations emits for one plan entry
EntryOperations(old_name, new_name, f) ==
    LET Script(script) ==
            IF IsFile(f, PathJoin(old_name, script))
            THEN <<Op("rename", PathJoin(old_name, script),
                     Text(PathJoin(new_name, script)), NoMode)>>
            ELSE <<>>
        old_step_md == PathJoin(old_name, S_step \o Replace(old_name, S_step, Empty) \o S_md)
        new_step_md == PathJoin(new_name, S_step \o Replace(new_name, S_step, Empty) \o S_md)
    IN  <<Op("makedirs", new_name, None, NoMode)>> \o
        (IF IsDir(f, old_name)
         THEN Script(S_background_sh) \o Script(S_foreground_sh) \o Script(S_verify_sh) \o
              (IF IsFile(f, old_step_md)
               THEN <<Op("rename", old_step_md, Text(new_step_md), NoMode)>> ELSE <<>>)
         ELSE <<Op("rename", old_name, Text(new_name \o S_md), NoMode)>>)

\* calculate_renaming_operations
RECURSIVE CalculateRenamingOperations(_, _)
CalculateRenamingOperations(plan, f) ==
    IF plan = <<>> THEN <<>>
    ELSE EntryOperations(plan[1][1], plan[1][2], f) \o CalculateRenamingOperations(Tail(plan), f)

ScriptText(step_title) == Text(<<"#!/bin/sh\necho \"">> \o step_title \o <<" script\"\n">>)

\* calculate_new_step_file_operations setting the mode before writing the script
CalculateNewStepChmodFirst(insert_at, step_title, type) ==
    LET new_step_folder == S_step \o Str(insert_at)
        new_step_md == new_step_folder \o <<"/">> \o S_step \o Str(insert_at) \o S_md
        new_step_background == new_step_folder \o <<"/">> \o S_background_sh
        new_step_foreground == new_step_folder \o <<"/">> \o S_foreground_sh
        new_step_verify == new_step_folder \o <<"/">> \o S_verify_sh
    IN  <<Op("makedirs", new_step_folder, None, NoMode),
          Op("write_file", new_step_md, Text(<<"# ">> \o step_title \o <<"\n">>), NoMode)>> \o
        (IF type = "r"
         THEN <<Op("write_file", new_step_background, ScriptText(step_title), NoMode),
                Op("chmod", new_step_foreground, None, Mode755),
                Op("write_file", new_step_foreground, ScriptText(step_title), NoMode),
                Op("chmod", new_step_background, None, Mode755)>>
         ELSE IF type = "v"
         THEN <<Op("chmod", new_step_verify, None, Mode755),
                Op("write_file", new_step_verify, ScriptText(step_title), NoMode)>>
         ELSE <<>>)

\* calculate_new_step_file_operations
CalculateNewStepFileOperations(insert_at, step_title, type) ==
    LET new_step_folder == S_step \o Str(insert_at)
        new_step_md == new_step_folder \o <<"/">> \o S_step \o Str(insert_at) \o S_md
        new_step_background == new_step_folder \o <<"/">> \o S_background_sh
        new_step_foreground == new_step_folder \o <<"/">> \o S_foreground_sh
        new_step_verify == new_step_folder \o <<"/">> \o S_verify_sh
    IN  <<Op("makedirs", new_step_folder, None, NoMode),
          Op("write_file", new_step_md, Text(<<"# ">> \o step_title \o <<"\n">>), NoMode)>> \o
        (IF type = "r"
         THEN <<Op("write_file", new_step_background, ScriptText(step_title), NoMode),
                Op("write_file", new_step_foreground, ScriptText(step_title), NoMode),
                Op("chmod", new_step_background, None, Mode755),
                Op("chmod", new_step_foreground, None, Mode755)>>
         ELSE IF type = "v"
         THEN <<Op("write_file", new_step_verify, ScriptText(step_title), NoMode),
                Op("chmod", new_step_verify, None, Mode755)>>
         ELSE <<>>)

\* list.insert(index, x), for index >= 0
ListInsert(s, index, x) ==
    IF index >= Len(s) THEN Append(s, x)
    ELSE SubSeq(s, 1, index) \o <<x>> \o SubSeq(s, index + 1, Len(s))

StepText(n) == S_step \o Str(n) \o <<"/">> \o S_step \o Str(n) \o S_md
StepScript(n, script) == S_step \o Str(n) \o <<"/">> \o script

\* the record calculate_index_json_updates builds for the new step
NewStepData(insert_at, step_title, type) ==
    IF type = "v"
    THEN [title |-> step_title, text |-> StepText(insert_at),
          verify |-> StepScript(insert_at, S_verify_sh)]
    ELSE [title |-> step_title, text |-> StepText(insert_at),
          background |-> StepScript(insert_at, S_background_sh)]

\* the body of the renumbering loop, for the step at 0-based index i
Renumbered(step, i) ==
    LET step_number == i + 1
        with_text == DictSet(step, "text", StepText(step_number))
    IN  IF "verify" \in DOMAIN step
        THEN DictSet(with_text, "verify", StepScript(step_number, S_verify_sh))
        ELSE DictSet(with_text, "background", StepScript(step_number, S_background_sh))

\* calculate_index_json_updates
CalculateIndexJsonUpdates(insert_at, step_title, data, type) ==
    LET inserted == ListInsert(data.details.steps, insert_at - 1,
                               NewStepData(insert_at, step_title, type))
        steps == [p \in 1..Len(inserted) |->
                    IF p - 1 >= insert_at THEN Renumbered(inserted[p], p - 1)
                    ELSE inserted[p]]
    IN  [data EXCEPT !.details.steps = steps]

-----------------------------------------------------------------------------
(* Course validation *)

\* Python truthiness of a string, a list or a dict
Truthy(v) == DOMAIN v # {}

\* json.dump, and json.loads of the text of a file: the text of a document
\* that parses is [json |-> value]; any other text is a Text(s) and does not
JsonDump(data) == [json |-> data]
JsonParses(content) == "json" \in DOMAIN content
JsonLoads(content) == content.json

\* the loop of validate_course over the steps, from step i on
RECURSIVE ValidateSteps(_, _, _, _)
ValidateSteps(f, course_path, steps, i) ==
    IF i > Len(steps) THEN <<TRUE, <<"Valid">>>>
    ELSE LET step == steps[i]
         IN  IF ~(\A key \in {"title", "text"} : key \in DOMAIN step /\ Truthy(step[key]))
             THEN <<FALSE, <<"Step ">> \o Str(i) \o <<" missing required fields">>>>
             ELSE IF ~Exists(f, PathJoin(course_path, step.text))
             THEN <<FALSE, <<"Missing step file: ">> \o step.text>>
             ELSE IF "verify" \in DOMAIN step /\ ~Exists(f, PathJoin(course_path, step.verify))
             THEN <<FALSE, <<"Missing verify script: ">> \o step.verify>>
             ELSE IF "background" \in DOMAIN step
                     /\ ~Exists(f, PathJoin(course_path, step.background))
             THEN <<FALSE, <<"Missing background script: ">> \o step.background>>
             ELSE ValidateSteps(f, course_path, steps, i + 1)

\* validate_course
ValidateCourse(f, course_path) ==
    LET index_path == PathJoin(course_path, S_index_json)
    IN  IF ~Exists(f, index_path) THEN <<FALSE, <<"Missing index.json file">>>>
        ELSE IF IsDir(f, index_path) THEN <<FALSE, <<"Validation error: ", "IsADirectoryError">>>>
        ELSE LET content == f[NormPath(index_path)].content
             IN  IF content = Text(Empty) THEN <<FALSE, <<"Empty index.json file">>>>
                 ELSE IF ~JsonParses(content) THEN <<FALSE, <<"Invalid JSON in index.json">>>>
                 ELSE LET index_data == JsonLoads(content)
                      IN  IF ~Truthy(index_data)
                          THEN <<FALSE, <<"Empty JSON object in index.json">>>>
                          ELSE IF ~(\A key \in {"title", "description", "details"} :
                                        key \in DOMAIN index_data /\ Truthy(index_data[key]))
                          THEN <<FALSE, <<"Missing required fields">>>>
                          ELSE IF \/ "steps" \notin DOMAIN index_data.details
                                  \/ ~Truthy(index_data.details.steps)
                          THEN <<FALSE, <<"Missing steps in index.json">>>>
                          ELSE ValidateSteps(f, course_path, index_data.details.steps, 1)

-----------------------------------------------------------------------------
(* File operations: the path security validator and the constructor *)

\* characters that have no printable form, each one character of a path
NUL == "NUL"
LF == "LF"
CR == "CR"
CTRL == "CTRL"
\* what a byte that is not valid UTF-8 decodes to (errors='replace')
REPL == "U+FFFD"

HexChars == <<"0", "1", "2", "3", "4", "5", "6", "7", "8", "9",
              "a", "b", "c", "d", "e", "f", "A", "B", "C", "D", "E", "F">>
IsHex(c) == \E i \in 1..22 : HexChars[i] = c
HexVal(c) == LET i == CHOOSE j \in 1..22 : HexChars[j] = c
             IN  IF i <= 16 THEN i - 1 ELSE i - 7

\* the printable ASCII characters, from 32 (space) to 126 (92 and 96, the backslash
\* and the backtick, are named)
Ascii == <<
    " ", "!", "\"", "#", "$", "%", "&", "'", "(", ")", "*", "+", ",", "-",
    ".", "/", "0", "1", "2", "3", "4", "5", "6", "7", "8", "9", ":", ";",
    "<", "=", ">", "?", "@", "A", "B", "C", "D", "E", "F", "G", "H", "I",
    "J", "K", "L", "M", "N", "O", "P", "Q", "R", "S", "T", "U", "V", "W",
    "X", "Y", "Z", "[", "BACKSLASH", "]", "^", "_", "BACKTICK", "a", "b", "c", "d", "e",
    "f", "g", "h", "i", "j", "k", "l", "m", "n", "o", "p", "q", "r", "s",
    "t", "u", "v", "w", "x", "y", "z", "{", "|", "}", "~" >>

\* the character of one decoded byte
ByteChar(b) ==
    IF b >= 128 THEN REPL
    ELSE IF b >= 32 /\ b <= 126 THEN Ascii[b - 31]
    ELSE IF b = 0 THEN NUL
    ELSE IF b = 10 THEN LF
    ELSE IF b = 13 THEN CR
    ELSE CTRL

\* urllib.parse.unquote: every %XX with two hex digits is decoded
RECURSIVE Unquote(_)
Unquote(p) ==
    IF p = <<>> THEN <<>>
    ELSE IF Head(p) = "%" /\ Len(p) >= 3 /\ IsHex(p[2]) /\ IsHex(p[3])
         THEN <<ByteChar(16 * HexVal(p[2]) + HexVal(p[3]))>> \o Unquote(SubSeq(p, 4, Len(p)))
         ELSE <<Head(p)>> \o Unquote(Tail(p))

\* the same checks made on the path as written, without decoding it first
ValidateRawPath(path) ==
    IF path = Empty THEN "Path cannot be empty"
    ELSE IF Contains(path, <<NUL>>) THEN "Path contains null byte"
    ELSE IF Contains(path, <<LF>>) \/ Contains(path, <<CR>>)
         THEN "Path contains invalid character"
    ELSE IF IsAbs(path) THEN "Absolute path not allowed"
    ELSE IF Contains(path, <<".", ".">>) THEN "Path traversal not allowed"
    ELSE "ok"

\* FileOperation._validate_path_security: "ok", or the ValueError it raises
ValidatePathSecurity(path) ==
    IF path = Empty THEN "Path cannot be empty"
    ELSE IF Contains(path, <<NUL>>) THEN "Path contains null byte"
    ELSE IF Contains(path, <<LF>>) \/ Contains(path, <<CR>>)
         THEN "Path contains invalid character"
    ELSE LET decoded_path == Unquote(path)
             normalized == NormPath(decoded_path)
         IN  IF IsAbs(decoded_path) THEN "Absolute path not allowed"
             ELSE IF Contains(decoded_path, <<".", ".">>) THEN "Path traversal not allowed"
             ELSE IF StartsWith(normalized, <<".", ".">>) \/ IsAbs(normalized)
                  THEN "Invalid path"
             ELSE "ok"

\* FileOperation.__init__ of file_operations.py: the object, or the error raised
FileOperation(operation, path, content, mode) ==
    IF ValidatePathSecurity(path) # "ok"
    THEN [ok |-> FALSE, op |-> Op("none", Empty, None, NoMode),
          err |-> ValidatePathSecurity(path)]
    ELSE IF operation = "rename" /\ content # None /\ content # Text(Empty)
            /\ ValidatePathSecurity(content.str) # "ok"
    THEN [ok |-> FALSE, op |-> Op("none", Empty, None, NoMode),
          err |-> ValidatePathSecurity(content.str)]
    ELSE [ok |-> TRUE, op |-> Op(operation, path, content, mode), err |-> "ok"]

-----------------------------------------------------------------------------
(* The scenarios a run starts from *)

\* Forms of a step on disk and in index.json:
\*   R  directory with background.sh and foreground.sh, both named by the record
\*   B  the same directory, the record names background only (what main() writes)
\*   V  directory with verify.sh, named by the record
\*   T  directory with its markdown only, the record has title and text only
\*   BV directory with background.sh and verify.sh, both named by the record
\*   F  the flat legacy form stepN.md
\*   L  stepN is a symbolic link to a directory beside the working directory
\*      that holds the markdown and background.sh; the record names both
\*   P  a plain file named stepN: not a step (the scan omits it), no record
\*   A  directory with its markdown and one more file of the author's
\*      (an image, notes); the record has title and text only
Shapes == {"R", "B", "V", "T", "BV", "F", "L", "P", "A"}

S_asset == <<"i", "m", "a", "g", "e", ".", "p", "n", "g">>

ShapeScripts(shape) ==
    CASE shape \in {"R", "B"} -> {S_background_sh, S_foreground_sh}
      [] shape = "L" -> {S_background_sh}
      [] shape = "V" -> {S_verify_sh}
      [] shape = "BV" -> {S_background_sh, S_verify_sh}
      [] OTHER -> {}

StepTitle(k) == <<"Step ">> \o Str(k)
MdText(step_title) == Text(<<"# ">> \o step_title \o <<"\n">>)

\* the directory beside the working directory that the link stepk names
LinkedDir(k) == S_up \o <<"/", "o">> \o Str(k)

StepNodes(k, shape) ==
    IF shape = "F"
    THEN {<<S_step \o Str(k) \o S_md, File(MdText(StepTitle(k)), DefaultMode)>>}
    ELSE IF shape = "P"
    THEN {<<S_step \o Str(k), File(Text(Empty), DefaultMode)>>}
    ELSE IF shape = "L"
    THEN {<<S_step \o Str(k), Link(LinkedDir(k))>>,
          <<S_up, Dir>>, <<LinkedDir(k), Dir>>,
          <<PathJoin(LinkedDir(k), S_step \o Str(k) \o S_md),
            File(MdText(StepTitle(k)), DefaultMode)>>,
          <<PathJoin(LinkedDir(k), S_background_sh),
            File(ScriptText(StepTitle(k)), Mode755)>>}
    ELSE {<<S_step \o Str(k), Dir>>,
          <<StepText(k), File(MdText(StepTitle(k)), DefaultMode)>>}
         \cup {<<StepScript(k, script), File(ScriptText(StepTitle(k)), Mode755)>> :
                 script \in ShapeScripts(shape)}
         \cup (IF shape = "A"
               THEN {<<StepScript(k, S_asset), File(Text(StepTitle(k)), DefaultMode)>>}
               ELSE {})

StepRecord(k, shape) ==
    LET base == [title |-> StepTitle(k),
                 text |-> IF shape = "F" THEN S_step \o Str(k) \o S_md ELSE StepText(k)]
        bg == IF shape \in {"R", "B", "BV", "L"}
              THEN DictSet(base, "background", StepScript(k, S_background_sh)) ELSE base
        fg == IF shape = "R"
              THEN DictSet(bg, "foreground", StepScript(k, S_foreground_sh)) ELSE bg
    IN  IF shape \in {"V", "BV"}
        THEN DictSet(fg, "verify", StepScript(k, S_verify_sh)) ELSE fg

Manifest(steps) ==
    [title |-> <<"Scenario">>, description |-> <<"A scenario">>,
     details |-> [steps |-> steps]]

FromPairs(S) == [k \in {x[1] : x \in S} |-> (CHOOSE x \in S : x[1] = k)[2]]

\* the scenario whose steps carry the numbers nums (ascending), step nums[i]
\* having the form shape[i] and being record i of the manifest
Scenario(nums, shape, has_index) ==
    LET recorded == SelectSeq([i \in 1..Len(nums) |-> i], LAMBDA i : shape[i] # "P")
    IN  FromPairs(UNION {StepNodes(nums[i], shape[i]) : i \in 1..Len(nums)}
                  \cup (IF has_index
                        THEN {<<S_index_json,
                                File(JsonDump(Manifest([j \in 1..Len(recorded) |->
                                         StepRecord(nums[recorded[j]], shape[recorded[j]])])),
                                     DefaultMode)>>}
                        ELSE {}))

NoData == [details |-> [steps |-> <<>>]]
NoFileOp == [ok |-> FALSE, op |-> Op("none", Empty, None, NoMode), err |-> "none"]

Init ==
    /\ \E K \in {S \in SUBSET (1..(MaxSteps + 1)) : Cardinality(S) <= MaxSteps} :
         \E shape \in [1..Cardinality(K) -> Shapes] : \E has_index \in BOOLEAN :
           fs = Scenario(Sorted(K), shape, has_index)
    /\ pc = "idle"
    /\ runs = 0
    /\ steps_dict = EmptyDict
    /\ insert_step_num = 0
    /\ step_type = ""
    /\ renaming_plan = <<>>
    /\ file_operations = <<>>
    /\ op_idx = 1
    /\ current_index_data = NoData
    /\ updated_index_data = NoData
    /\ fs0 = fs
    /\ error = Empty
    /\ fileop = NoFileOp
    /\ result_dict = EmptyDict
    /\ number_input = Empty
    /\ argv = <<>>

-----------------------------------------------------------------------------------------------------------------------------------------------------
(* main(): the interactive insertion flow *)

\* the orders in which os.listdir may return the names
RECURSIVE Orders(_)
Orders(S) == IF S = {} THEN {<<>>}
             ELSE UNION {{<<x>> \o t : t \in Orders(S \ {x})} : x \in S}

\* what the user may type
TitleInputs == {<<"New Step">>}
NumberInputs == {Str(n) : n \in 0..(MaxSteps + MaxRuns + 2)} \cup {<<"x">>}
TypeInputs == {"r", "v", "regular"}

\* the location a path names when its last segment is not followed (rename)
LexPath(f, p) ==
    LET n == NormPath(p)
        segs == SplitSlash(n, <<>>)
    IN  IF Len(segs) = 1 THEN n
        ELSE NormPath(PathJoin(RealPath(f, DirName(n)), segs[Len(segs)]))

\* a link on the way that leads nowhere
HasDanglingLink(f, p) ==
    \E q \in Prefixes(NormPath(p)) : IsLink(f, LexPath(f, q)) /\ RealPath(f, q) \notin DOMAIN f

\* one operation as the operating system performs it, following links
\* (file_operations.py lines 247-256, the same four calls as cli.py 337-345)
ApplyResolved(f, op) ==
    IF op.operation = "makedirs"
    THEN IF HasDanglingLink(f, op.path)
         THEN [ok |-> FALSE, fs |-> f, err |-> "FileExistsError"]
         ELSE MakeDirs(f, RealPath(f, op.path))
    ELSE IF op.operation = "write_file" THEN WriteFile(f, RealPath(f, op.path), op.content)
    ELSE IF op.operation = "chmod" THEN Chmod(f, RealPath(f, op.path), op.mode)
    ELSE IF op.operation = "rename"
    THEN IF op.content = None \/ op.content = Text(Empty)
         THEN Rename(f, LexPath(f, op.path), op.content)
         ELSE Rename(f, LexPath(f, op.path), Text(LexPath(f, op.content.str)))
    ELSE [ok |-> TRUE, fs |-> f, err |-> "none"]

\* execute_file_operations of cli.py: the effect of one operation; nothing
\* is checked before the call
ApplyOperation(f, op) == ApplyResolved(f, op)

\* main(), from the listing of the directory to the call of
\* execute_file_operations, with the step map d scanned from the listing and
\* the three answers of the user: everything is computed before anything is
\* applied, and an exception ends the run
MainRun(d, step_title_input, step_number_input, type) ==
    \E input \in {GetUserInput(d, step_title_input, step_number_input)} :
    \E plan \in {PlanRenaming(d, input.step_number)} :
        /\ steps_dict' = d
        /\ runs' = runs + 1
        /\ fs0' = fs
        /\ number_input' = IF S_index_json \notin TopLevel(fs)
                           THEN Empty ELSE step_number_input
        /\ UNCHANGED argv
        /\ UNCHANGED <<fs, fileop, result_dict>>
        /\ IF S_index_json \notin TopLevel(fs)
           THEN /\ pc' = "noindex"
                /\ error' = Empty
                /\ UNCHANGED <<insert_step_num, step_type, renaming_plan, file_operations,
                               op_idx, current_index_data, updated_index_data>>
           ELSE IF ~input.ok
           THEN /\ pc' = "failed"
                /\ error' = input.err
                /\ step_type' = type
                /\ UNCHANGED <<insert_step_num, renaming_plan, file_operations,
                               op_idx, current_index_data, updated_index_data>>
           ELSE IF ~IsFile(fs, S_index_json) \/ ~JsonParses(fs[S_index_json].content)
           THEN /\ pc' = "failed"
                /\ error' = <<"JSONDecodeError">>
                /\ step_type' = type
                /\ insert_step_num' = input.step_number
                /\ renaming_plan' = plan
                /\ UNCHANGED <<file_operations, op_idx, current_index_data,
                               updated_index_data>>
           ELSE /\ pc' = "exec"
                /\ error' = Empty
                /\ step_type' = type
                /\ insert_step_num' = input.step_number
                /\ renaming_plan' = plan
                /\ file_operations' =
                       CalculateRenamingOperations(plan, fs)
                       \o CalculateNewStepFileOperations(input.step_number,
                                                         input.step_title, type)
                /\ op_idx' = 1
                /\ current_index_data' = JsonLoads(fs[S_index_json].content)
                /\ updated_index_data' =
                       CalculateIndexJsonUpdates(input.step_number, input.step_title,
                                                 JsonLoads(fs[S_index_json].content), type)

Main ==
    /\ pc \in {"idle", "done", "failed", "noindex"}
    /\ runs < MaxRuns
    /\ \E d \in {GetCurrentStepsDict(items, fs) : items \in Orders(TopLevel(fs))} :
       \E t \in TitleInputs : \E n \in NumberInputs : \E type \in TypeInputs :
           MainRun(d, t, n, type)

\* main() where the tree command is not installed: get_tree_structure raises
\* before the directory is read, the error is printed and nothing changes
MainWithoutTree ==
    /\ pc \in {"idle", "done", "failed", "noindex"}
    /\ runs < MaxRuns
    /\ runs' = runs + 1
    /\ fs0' = fs
    /\ pc' = "failed"
    /\ error' = <<"FileNotFoundError">>
    /\ UNCHANGED <<fs, steps_dict, insert_step_num, step_type, renaming_plan,
                   file_operations, op_idx, current_index_data, updated_index_data,
                   fileop, result_dict>>
    /\ number_input' = Empty
    /\ UNCHANGED argv

\* one iteration of the loop of execute_file_operations; an error ends the run
ExecuteFileOperation ==
    /\ pc = "exec"
    /\ op_idx <= Len(file_operations)
    /\ \E r \in {ApplyOperation(fs, file_operations[op_idx])} :
           /\ fs' = r.fs
           /\ IF r.ok
              THEN /\ op_idx' = op_idx + 1
                   /\ UNCHANGED <<pc, error>>
              ELSE /\ pc' = "failed"
                   /\ error' = <<r.err>>
                   /\ UNCHANGED op_idx
    /\ UNCHANGED <<runs, steps_dict, insert_step_num, step_type, renaming_plan,
                   file_operations, current_index_data, updated_index_data, fs0,
                   fileop, result_dict>>
    /\ UNCHANGED number_input
    /\ UNCHANGED argv

\* index.json rewritten while operations are still to be applied
WriteIndexJsonEarly ==
    /\ pc = "exec"
    /\ fs' = WriteFile(fs, S_index_json, JsonDump(updated_index_data)).fs
    /\ pc' = "done"
    /\ UNCHANGED <<runs, steps_dict, insert_step_num, step_type, renaming_plan,
                   file_operations, op_idx, current_index_data, updated_index_data,
                   fs0, error, fileop, result_dict>>
    /\ UNCHANGED number_input
    /\ UNCHANGED argv

\* main(), after execute_file_operations returned: index.json is rewritten
WriteIndexJson ==
    /\ pc = "exec"
    /\ op_idx > Len(file_operations)
    /\ fs' = WriteFile(fs, S_index_json, JsonDump(updated_index_data)).fs
    /\ pc' = "done"
    /\ UNCHANGED <<runs, steps_dict, insert_step_num, step_type, renaming_plan,
                   file_operations, op_idx, current_index_data, updated_index_data,
                   fs0, error, fileop, result_dict>>
    /\ UNCHANGED number_input
    /\ UNCHANGED argv

Next ==
    \/ Main
    \/ MainWithoutTree
    \/ ExecuteFileOperation
    \/ WriteIndexJson

Spec == Init /\ [][Next]_vars

-----------------------------------------------------------------------------
(* The renaming plan applied to a step map, as the property tests apply it *)

\* the step number a name stands for (get_current_steps_dict's parse)
StepNumOf(name) == IntParse(Replace(Replace(name, S_step, Empty), S_md, Empty)).val

StepName(k, form) == IF form = "md" THEN S_step \o Str(k) \o S_md ELSE S_step \o Str(k)

DictDel(d, k) == [x \in DOMAIN d \ {k} |-> d[x]]

\* the values every specification gives the variables of main()
MainAtRest ==
    /\ runs = 0
    /\ step_type = ""
    /\ file_operations = <<>>
    /\ current_index_data = NoData
    /\ updated_index_data = NoData
    /\ error = Empty
    /\ fileop = NoFileOp
    /\ fs = EmptyDict
    /\ fs0 = EmptyDict

InitPlan ==
    /\ \E K \in SUBSET (1..(MaxSteps + 1)) : \E form \in [K -> {"dir", "md"}] :
           steps_dict = [k \in K |-> StepName(k, form[k])]
    /\ pc = "planning"
    /\ insert_step_num = 0
    /\ renaming_plan = <<>>
    /\ op_idx = 1
    /\ result_dict = EmptyDict
    /\ number_input = Empty
    /\ argv = <<>>
    /\ MainAtRest

\* plan_renaming is called for a position, valid or not
PlanInsertion ==
    /\ pc = "planning"
    /\ \E P \in 0..(MaxSteps + 3) :
           /\ insert_step_num' = P
           /\ renaming_plan' = PlanRenaming(steps_dict, P)
    /\ result_dict' = steps_dict
    /\ op_idx' = 1
    /\ pc' = "renaming"
    /\ UNCHANGED <<fs, runs, steps_dict, step_type, file_operations, current_index_data,
                   updated_index_data, fs0, error, fileop>>
    /\ UNCHANGED number_input
    /\ UNCHANGED argv

\* the next pair of the plan is applied: the old entry goes, the new one comes
ApplyRename ==
    /\ pc = "renaming"
    /\ op_idx <= Len(renaming_plan)
    /\ LET old_num == StepNumOf(renaming_plan[op_idx][1])
           new_num == StepNumOf(renaming_plan[op_idx][2])
       IN  IF old_num \in DOMAIN result_dict
           THEN /\ result_dict' = DictSet(DictDel(result_dict, old_num), new_num,
                                          renaming_plan[op_idx][2])
                /\ op_idx' = op_idx + 1
                /\ pc' = pc
           ELSE /\ pc' = "failed"
                /\ UNCHANGED <<result_dict, op_idx>>
    /\ UNCHANGED <<fs, runs, steps_dict, insert_step_num, step_type, renaming_plan,
                   file_operations, current_index_data, updated_index_data, fs0, error,
                   fileop>>
    /\ UNCHANGED number_input
    /\ UNCHANGED argv

\* the plan is done: the new step takes the insertion position
AddNewStep ==
    /\ pc = "renaming"
    /\ op_idx > Len(renaming_plan)
    /\ result_dict' = DictSet(result_dict, insert_step_num, S_step \o Str(insert_step_num))
    /\ pc' = "inserted"
    /\ UNCHANGED <<fs, runs, steps_dict, insert_step_num, step_type, renaming_plan,
                   file_operations, op_idx, current_index_data, updated_index_data, fs0,
                   error, fileop>>
    /\ UNCHANGED number_input
    /\ UNCHANGED argv

NextPlan ==
    \/ PlanInsertion
    \/ ApplyRename
    \/ AddNewStep

SpecPlan == InitPlan /\ [][NextPlan]_vars

\* the step map is sequential (keys 1..N) and the position is valid for it
SequentialAndValid ==
    /\ DOMAIN steps_dict = 1..Cardinality(DOMAIN steps_dict)
    /\ insert_step_num \in 1..(Cardinality(DOMAIN steps_dict) + 1)

\* C1: for a step map with keys exactly 1..N and a position P in 1..N+1, once
\* the plan has been applied in its order and the new step added at P, the
\* step numbers are exactly 1..N+1: no gap, and no two entries share a number
\* (every entry carries the name of its own number, the names are distinct).
C1_SequentialAfterInsertion ==
    (pc = "inserted" /\ SequentialAndValid) =>
        /\ DOMAIN result_dict = 1..(Cardinality(DOMAIN steps_dict) + 1)
        /\ \A k \in DOMAIN result_dict : StepNumOf(result_dict[k]) = k
        /\ Cardinality({result_dict[k] : k \in DOMAIN result_dict})
               = Cardinality(DOMAIN steps_dict) + 1

C1_Witness ==
    /\ pc = "inserted" /\ SequentialAndValid
    /\ Cardinality(DOMAIN steps_dict) = MaxSteps + 1
    /\ insert_step_num = 1
    /\ DOMAIN result_dict = 1..(MaxSteps + 2)

\* the step numbers the plan must cover
ToShift == {k \in DOMAIN steps_dict : k >= insert_step_num}
\* pair i of the plan is the pair of step k
IsPairOf(i, k) == renaming_plan[i] = <<steps_dict[k], S_step \o Str(k + 1)>>

\* C2: the plan holds exactly one pair for each step number k >= P and none
\* for a k < P, each pair is (current name of step k, "step" + (k+1)), and the
\* pairs come in strictly descending order of k.
C2_PlanContents ==
    (pc \in {"renaming", "inserted"}) =>
        /\ Len(renaming_plan) = Cardinality(ToShift)
        /\ \A i \in 1..Len(renaming_plan) : \E k \in ToShift : IsPairOf(i, k)
        /\ \A k \in ToShift : \E i \in 1..Len(renaming_plan) : IsPairOf(i, k)
        /\ \A i, j \in 1..Len(renaming_plan) :
               i < j => \A k, l \in ToShift : (IsPairOf(i, k) /\ IsPairOf(j, l)) => k > l

C2_Witness ==
    /\ pc = "renaming"
    /\ Len(renaming_plan) >= 2
    /\ \E k \in DOMAIN steps_dict : k < insert_step_num
    /\ \E k \in DOMAIN steps_dict : EndsWith(steps_dict[k], S_md) /\ k >= insert_step_num

\* the names of the entries that the first i-1 pairs of the plan have not
\* renamed and that pair i does not rename
NotYetRenamed(i) ==
    {steps_dict[k] : k \in DOMAIN steps_dict} \ {renaming_plan[j][1] : j \in 1..i}

\* C3: while the plan is applied in its order, the destination of the rename
\* being applied (the name stepN+1, or stepN+1.md for a flat file) is never the
\* name of an entry that has not been renamed yet.
C3_NoCollision ==
    (pc = "renaming" /\ op_idx <= Len(renaming_plan)) =>
        /\ renaming_plan[op_idx][2] \notin NotYetRenamed(op_idx)
        /\ (renaming_plan[op_idx][2] \o S_md) \notin NotYetRenamed(op_idx)

C3_Witness ==
    /\ pc = "renaming"
    /\ op_idx = 2
    /\ Len(renaming_plan) >= 3
    /\ NotYetRenamed(op_idx) # {}

-----------------------------------------------------------------------------
(* The manifest updater applied to a manifest *)

ScriptKeys == {"background", "foreground", "verify"}
ScriptFile(key) ==
    CASE key = "background" -> S_background_sh
      [] key = "foreground" -> S_foreground_sh
      [] key = "verify" -> S_verify_sh

\* a step record at position i that names the folder step<i> in every field
\* it carries
RecordAt(i, keys) ==
    [key \in {"title", "text"} \cup keys |->
        IF key = "title" THEN StepTitle(i)
        ELSE IF key = "text" THEN StepText(i)
        ELSE StepScript(i, ScriptFile(key))]

InitManifest ==
    /\ \E n \in 0..MaxSteps : \E keys \in [1..n -> SUBSET ScriptKeys] :
           current_index_data = Manifest([i \in 1..n |-> RecordAt(i, keys[i])])
    /\ updated_index_data = NoData
    /\ pc = "manifest"
    /\ insert_step_num = 0
    /\ step_type = ""
    /\ runs = 0
    /\ steps_dict = EmptyDict
    /\ renaming_plan = <<>>
    /\ file_operations = <<>>
    /\ op_idx = 1
    /\ fs = EmptyDict
    /\ fs0 = EmptyDict
    /\ error = Empty
    /\ fileop = NoFileOp
    /\ result_dict = EmptyDict
    /\ number_input = Empty
    /\ argv = <<>>

\* calculate_index_json_updates is called; the position may exceed the number
\* of records by two, as main() validates it against the steps on disk.
\* current_index_data keeps the manifest as it was before the call.
ApplyInsertion ==
    /\ pc = "manifest"
    /\ \E P \in 1..(Len(current_index_data.details.steps) + 2) :
       \E t \in TitleInputs : \E type \in TypeInputs :
           /\ insert_step_num' = P
           /\ step_type' = type
           /\ updated_index_data' = CalculateIndexJsonUpdates(P, t, current_index_data, type)
    /\ pc' = "updated"
    /\ UNCHANGED <<fs, runs, steps_dict, renaming_plan, file_operations, op_idx,
                   current_index_data, fs0, error, fileop, result_dict>>
    /\ UNCHANGED number_input
    /\ UNCHANGED argv

NextManifest == ApplyInsertion

SpecManifest == InitManifest /\ [][NextManifest]_vars

OldSteps == current_index_data.details.steps
NewSteps == updated_index_data.details.steps
PointsInto(path, i) == StartsWith(path, S_step \o Str(i) \o <<"/">>)

\* C5: after the insertion, on a manifest whose steps each named the folder of
\* their own position, every step at position i has each of its text,
\* background, foreground and verify fields pointing into folder step<i>.
C5_FieldsMatchPosition ==
    (pc = "updated" /\ insert_step_num <= Len(OldSteps) + 1) =>
        \A i \in 1..Len(NewSteps) :
            \A key \in ({"text"} \cup ScriptKeys) \cap DOMAIN NewSteps[i] :
                PointsInto(NewSteps[i][key], i)

\* C6: for n records and P in 1..n+1 the result has n+1 records, position P
\* holds the new record (the title, text = stepP/stepP.md), the records before
\* P are unchanged, and each record at k >= P sits at k+1 with its title kept,
\* text = step(k+1)/step(k+1).md and, if it had one, background =
\* step(k+1)/background.sh.
C6_InsertionResult ==
    (pc = "updated" /\ insert_step_num <= Len(OldSteps) + 1) =>
        /\ Len(NewSteps) = Len(OldSteps) + 1
        /\ NewSteps[insert_step_num].title \in TitleInputs
        /\ NewSteps[insert_step_num].text = StepText(insert_step_num)
        /\ \A k \in 1..(insert_step_num - 1) : NewSteps[k] = OldSteps[k]
        /\ \A k \in insert_step_num..Len(OldSteps) :
               /\ NewSteps[k + 1].title = OldSteps[k].title
               /\ NewSteps[k + 1].text = StepText(k + 1)
               /\ "background" \in DOMAIN OldSteps[k] =>
                      /\ "background" \in DOMAIN NewSteps[k + 1]
                      /\ NewSteps[k + 1].background = StepScript(k + 1, S_background_sh)

\* C7: the renumbering pass never adds a key to an existing record: each step
\* after the inserted one carries the same script keys as before, each
\* rewritten to the new-numbered path.
C7_NoInventedKeys ==
    (pc = "updated" /\ insert_step_num <= Len(OldSteps) + 1) =>
        \A k \in insert_step_num..Len(OldSteps) :
            /\ DOMAIN NewSteps[k + 1] \cap ScriptKeys = DOMAIN OldSteps[k] \cap ScriptKeys
            /\ \A key \in DOMAIN OldSteps[k] \cap ScriptKeys :
                   key \in DOMAIN NewSteps[k + 1]
                   /\ NewSteps[k + 1][key] = StepScript(k + 1, ScriptFile(key))

\* the 1-based position list.insert gives the new record
NewPosition == IF insert_step_num <= Len(OldSteps) + 1 THEN insert_step_num
               ELSE Len(OldSteps) + 1

\* C8: the record an insertion creates carries title and text and, by its
\* type, either both background and foreground (regular, "r") or verify alone
\* (verify, "v"), never script keys of both kinds.
C8_NewRecordKeys ==
    (pc = "updated" /\ step_type \in {"r", "v"}) =>
        LET keys == DOMAIN NewSteps[NewPosition]
        IN  /\ {"title", "text"} \subseteq keys
            /\ step_type = "r" => keys \cap ScriptKeys = {"background", "foreground"}
            /\ step_type = "v" => keys \cap ScriptKeys = {"verify"}

-----------------------------------------------------------------------------
(* The insertion flow and the course validator *)

Valid == <<TRUE, <<"Valid">>>>

\* C4: from a scenario with sequentially numbered steps that validate_course
\* accepts, a completed insertion at a valid position with type regular ("r")
\* or verify ("v") leaves a scenario that validate_course accepts again.
C4_ValidAfterInsertion ==
    (/\ pc = "done"
     /\ step_type \in {"r", "v"}
     /\ DOMAIN steps_dict = 1..Cardinality(DOMAIN steps_dict)
     /\ ValidateCourse(fs0, Cwd) = Valid)
        => ValidateCourse(fs, Cwd) = Valid

-----------------------------------------------------------------------------
(* Construction of a validated FileOperation *)

\* what the paths are put together from
Pieces == {<<".">>, <<"/">>, <<"a">>, <<"%", "2", "e">>, <<"%", "2", "f">>,
           <<NUL>>, <<LF>>, <<CR>>}

RECURSIVE Concat(_)
Concat(seq) == IF seq = <<>> THEN <<>> ELSE Head(seq) \o Concat(Tail(seq))

PathsUpTo(n) == {Concat(ps) : ps \in UNION {[1..m -> Pieces] : m \in 0..n}}

PathInputs == PathsUpTo(MaxPathLen) \cup {StepScript(3, S_background_sh)}
DestInputs == {None} \cup {Text(p) : p \in PathsUpTo(MaxDestLen) \cup {StepScript(4, S_background_sh)}}

\* the arguments of a constructor call, as an operation record without
\* validation
InitFileOp ==
    /\ \E p \in PathInputs :
           \/ file_operations = <<Op("makedirs", p, None, NoMode)>>
           \/ file_operations = <<Op("write_file", p, Text(<<"# ">>), NoMode)>>
           \/ file_operations = <<Op("chmod", p, None, Mode755)>>
           \/ \E c \in DestInputs : file_operations = <<Op("rename", p, c, NoMode)>>
    /\ fileop = NoFileOp
    /\ pc = "arguments"
    /\ op_idx = 1
    /\ insert_step_num = 0
    /\ step_type = ""
    /\ runs = 0
    /\ steps_dict = EmptyDict
    /\ renaming_plan = <<>>
    /\ current_index_data = NoData
    /\ updated_index_data = NoData
    /\ fs = EmptyDict
    /\ fs0 = EmptyDict
    /\ error = Empty
    /\ result_dict = EmptyDict
    /\ number_input = Empty
    /\ argv = <<>>

\* FileOperation(operation, path, content=..., mode=...) of file_operations.py
ConstructFileOperation ==
    /\ pc = "arguments"
    /\ fileop' = FileOperation(file_operations[1].operation, file_operations[1].path,
                               file_operations[1].content, file_operations[1].mode)
    /\ pc' = "constructed"
    /\ UNCHANGED <<fs, runs, steps_dict, insert_step_num, step_type, renaming_plan,
                   file_operations, op_idx, current_index_data, updated_index_data,
                   fs0, error, result_dict>>
    /\ UNCHANGED number_input
    /\ UNCHANGED argv

NextFileOp == ConstructFileOperation

SpecFileOp == InitFileOp /\ [][NextFileOp]_vars

Arguments == file_operations[1]
HasParentSegment(p) == \E i \in DOMAIN SplitSlash(p, <<>>) : SplitSlash(p, <<>>)[i] = <<".", ".">>
SecurityErrors == {"Path cannot be empty", "Path contains null byte",
                   "Path contains invalid character", "Absolute path not allowed",
                   "Path traversal not allowed", "Invalid path"}

\* the paths the validator is to refuse
MustReject(path) ==
    \/ path = Empty
    \/ Contains(path, <<NUL>>)
    \/ Contains(path, <<CR>>)
    \/ Contains(path, <<LF>>)
    \/ IsAbs(Unquote(path))
    \/ HasParentSegment(Unquote(path))

\* C9: constructing a FileOperation of any kind fails with a security error
\* when the path is empty, holds a null byte, CR or LF, or after
\* percent-decoding is absolute or has a '..' segment; for the plain relative
\* path step3/background.sh (and, for a rename, a plain destination) it
\* succeeds and the operation carries the arguments.
C9_ValidateRejects ==
    (pc = "constructed") =>
        /\ MustReject(Arguments.path) =>
               ~fileop.ok /\ fileop.err \in SecurityErrors
        /\ (/\ Arguments.path = StepScript(3, S_background_sh)
            /\ Arguments.operation = "rename" =>
                   Arguments.content = Text(StepScript(4, S_background_sh)))
               => fileop.ok /\ fileop.op = Arguments

C9_Witness ==
    /\ pc = "constructed"
    /\ Arguments.operation = "chmod"
    /\ Arguments.path = <<"%", "2", "e", "%", "2", "e", "%", "2", "f">>
    /\ ~fileop.ok
    /\ fileop.err = "Path traversal not allowed"

\* C10: no rename FileOperation is constructed whose source or whose
\* destination is a path the validator rejects, the empty destination
\* included.
C10_RenameValidatesBoth ==
    (/\ pc = "constructed"
     /\ fileop.ok
     /\ fileop.op.operation = "rename"
     /\ "str" \in DOMAIN fileop.op.content)
        => /\ ValidatePathSecurity(fileop.op.path) = "ok"
           /\ ValidatePathSecurity(fileop.op.content.str) = "ok"

-----------------------------------------------------------------------------
(* The executor of file_operations.py on a tree with symbolic links.  A     *)
(* location is named by its path relative to the working directory, which   *)
(* is not the root: what lies outside it has a name that starts with "..".  *)

\* the largest number of operations in a list handed to the executor
MaxOps == 2

\* the loop body without its two containment checks
ExecuteUnchecked(f, op) == ApplyResolved(f, op)

\* the loop body with the check of the target only
ExecuteTargetChecked(f, op) ==
    IF ~InsideTree(RealPath(f, op.path))
    THEN [ok |-> FALSE, fs |-> f, err |-> "resolves outside working directory"]
    ELSE ApplyResolved(f, op)

\* the loop body with the operation applied before its paths are checked
ExecuteThenCheck(f, op) ==
    IF ~InsideTree(RealPath(f, op.path))
    THEN [ok |-> FALSE, fs |-> ApplyResolved(f, op).fs,
          err |-> "resolves outside working directory"]
    ELSE IF /\ op.operation = "rename"
            /\ op.content # None /\ op.content # Text(Empty)
            /\ ~InsideTree(RealPath(f, op.content.str))
    THEN [ok |-> FALSE, fs |-> ApplyResolved(f, op).fs,
          err |-> "Rename destination resolves outside working directory"]
    ELSE ApplyResolved(f, op)

\* one iteration of the loop of execute_file_operations (lines 221-256)
ExecuteOne(f, op) ==
    IF ~InsideTree(RealPath(f, op.path))
    THEN [ok |-> FALSE, fs |-> f, err |-> "resolves outside working directory"]
    ELSE IF /\ op.operation = "rename"
            /\ op.content # None /\ op.content # Text(Empty)
            /\ ~InsideTree(RealPath(f, op.content.str))
    THEN [ok |-> FALSE, fs |-> f,
          err |-> "Rename destination resolves outside working directory"]
    ELSE ApplyResolved(f, op)

P_l == <<"l">>
P_l_n == <<"l", "/", "n">>
P_d == <<"d">>
P_d_n == <<"d", "/", "n">>
P_d_f == <<"d", "/", "f">>
P_o == <<".", ".", "/", "o">>
P_o_f == <<".", ".", "/", "o", "/", "f">>
P_o_n == <<".", ".", "/", "o", "/", "n">>
P_o_x == <<".", ".", "/", "o", "/", "x">>

\* where the link l of the working directory points: a directory and a file
\* outside, nowhere (outside), a directory inside
LinkTargets == {P_o, P_o_f, P_o_x, P_d}

\* the tree: d and d/f inside, o and o/f beside the working directory
TreeWithLink(target) ==
    FromPairs({<<S_up, Dir>>, <<P_o, Dir>>, <<P_o_f, File(Text(<<"o">>), DefaultMode)>>,
               <<P_d, Dir>>, <<P_d_f, File(Text(<<"d">>), DefaultMode)>>,
               <<P_l, Link(target)>>})

TargetPaths == {P_l, P_l_n, P_d_n, P_d_f, P_o_n}
ExecInputs ==
    {Op("makedirs", p, None, NoMode) : p \in TargetPaths}
    \cup {Op("write_file", p, c, NoMode) : p \in TargetPaths, c \in {Text(<<"w">>), None}}
    \cup {Op("chmod", p, None, Mode755) : p \in TargetPaths}
    \cup {Op("rename", p, Text(q), NoMode) : p \in {P_d_f, P_l, P_d},
                                             q \in {P_l, P_l_n, P_d_n, P_o_n}}
    \cup {Op("rename", P_d_f, Text(Empty), NoMode)}

InitExec ==
    /\ \E target \in LinkTargets : fs = TreeWithLink(target)
    /\ \E m \in 0..MaxOps : \E ops \in [1..m -> ExecInputs] : file_operations = ops
    /\ fs0 = fs
    /\ pc = "executing"
    /\ op_idx = 1
    /\ error = Empty
    /\ fileop = NoFileOp
    /\ insert_step_num = 0
    /\ step_type = ""
    /\ runs = 0
    /\ steps_dict = EmptyDict
    /\ renaming_plan = <<>>
    /\ current_index_data = NoData
    /\ updated_index_data = NoData
    /\ result_dict = EmptyDict
    /\ number_input = Empty
    /\ argv = <<>>

\* one iteration of the loop; an exception leaves the loop and the function
ExecuteOperation ==
    /\ pc = "executing"
    /\ op_idx <= Len(file_operations)
    /\ \E r \in {ExecuteOne(fs, file_operations[op_idx])} :
           /\ fs' = r.fs
           /\ IF r.ok
              THEN /\ op_idx' = op_idx + 1
                   /\ UNCHANGED <<pc, error>>
              ELSE /\ pc' = "raised"
                   /\ error' = <<r.err>>
                   /\ UNCHANGED op_idx
    /\ UNCHANGED <<runs, steps_dict, insert_step_num, step_type, renaming_plan,
                   file_operations, current_index_data, updated_index_data, fs0,
                   fileop, result_dict>>
    /\ UNCHANGED number_input
    /\ UNCHANGED argv

\* the list is exhausted: execute_file_operations returns
ReturnFromExecute ==
    /\ pc = "executing"
    /\ op_idx > Len(file_operations)
    /\ pc' = "returned"
    /\ UNCHANGED <<fs, runs, steps_dict, insert_step_num, step_type, renaming_plan,
                   file_operations, op_idx, current_index_data, updated_index_data,
                   fs0, error, fileop, result_dict>>
    /\ UNCHANGED number_input
    /\ UNCHANGED argv

NextExec ==
    \/ ExecuteOperation
    \/ ReturnFromExecute

SpecExec == InitExec /\ [][NextExec]_vars

\* the operation the loop is at
CurrentOp == file_operations[op_idx]
\* the part of a tree that lies outside the working directory
OutsideOf(f) == [k \in {x \in DOMAIN f : ~InsideTree(x)} |-> f[k]]
\* the real path of the target, or of the destination of a rename, is outside
ResolvesOutside(f, op) ==
    \/ ~InsideTree(RealPath(f, op.path))
    \/ /\ op.operation = "rename"
       /\ "str" \in DOMAIN op.content
       /\ ~InsideTree(RealPath(f, op.content.str))
SecurityMessages == {<<"resolves outside working directory">>,
                     <<"Rename destination resolves outside working directory">>}

\* C11: when the real path of an operation's target, or of a rename's
\* destination, is neither the working directory nor beneath it, the executor
\* raises a security error and the operation changes nothing; no step of the
\* executor changes a location outside the working tree.
C11_NoEscape ==
    [][/\ (pc = "executing" /\ op_idx <= Len(file_operations)
               /\ ResolvesOutside(fs, CurrentOp))
           => (fs' = fs /\ pc' = "raised" /\ error' \in SecurityMessages)
       /\ OutsideOf(fs') = OutsideOf(fs)]_vars

C11_Witness ==
    /\ pc = "raised"
    /\ op_idx = 2
    /\ fs0[P_l].content = Text(P_o)
    /\ CurrentOp = Op("rename", P_d_f, Text(P_l_n), NoMode)
    /\ error = <<"Rename destination resolves outside working directory">>
    /\ fs # fs0
    /\ OutsideOf(fs) = OutsideOf(fs0)

\* the tree after the first n operations of a list have been applied to f
RECURSIVE AppliedInOrder(_, _, _)
AppliedInOrder(f, ops, n) ==
    IF n = 0 THEN f
    ELSE CHOOSE g \in {ApplyResolved(before, ops[n]).fs :
                          before \in {AppliedInOrder(f, ops, n - 1)}} : TRUE

FilesystemErrors == {<<"FileExistsError">>, <<"FileNotFoundError">>, <<"IsADirectoryError">>,
                     <<"NotADirectoryError">>, <<"OSError">>}

\* C12: the operations are applied in list order and nothing is rolled back:
\* while the loop runs and when it returns, the tree is the initial tree with
\* the operations so far applied in order; when operation K fails by the
\* security check or a filesystem error, the tree is the initial tree with
\* operations 1..K-1 applied, operation K and the later ones having changed
\* nothing, and the error is with the caller.
C12_InOrderNoRollback ==
    /\ pc = "executing" => fs = AppliedInOrder(fs0, file_operations, op_idx - 1)
    /\ pc = "returned" => fs = AppliedInOrder(fs0, file_operations, Len(file_operations))
    /\ pc = "raised" =>
           /\ op_idx \in 1..Len(file_operations)
           /\ error # Empty
           /\ error \in SecurityMessages \cup FilesystemErrors =>
                  fs = AppliedInOrder(fs0, file_operations, op_idx - 1)

C12_Witness ==
    /\ pc = "raised"
    /\ Len(file_operations) = 2
    /\ op_idx = 2
    /\ error \in FilesystemErrors
    /\ fs # fs0
    /\ fs = ApplyResolved(fs0, file_operations[1]).fs

-----------------------------------------------------------------------------
(* get_user_input on a step map and a typed position *)

\* the step maps the scanner can return: keys from 1..MaxSteps+1, and -1
\* (the directory step-1)
StepMapInputs ==
    {[k \in K |-> S_step \o Str(k)] : K \in SUBSET ({-1} \cup 1..(MaxSteps + 1))}

\* what the user types for the position
TypedNumbers ==
    {Str(n) : n \in (-1)..(MaxSteps + 3)}
    \cup {<<"x">>, Empty, <<" ", "2">>, <<"+", "1">>, <<"1", ".", "0">>}

InitInput ==
    /\ steps_dict \in StepMapInputs
    /\ number_input \in TypedNumbers
    /\ argv = <<>>
    /\ pc = "asking"
    /\ insert_step_num = 0
    /\ error = Empty
    /\ step_type = ""
    /\ runs = 0
    /\ renaming_plan = <<>>
    /\ file_operations = <<>>
    /\ op_idx = 1
    /\ current_index_data = NoData
    /\ updated_index_data = NoData
    /\ fs = EmptyDict
    /\ fs0 = EmptyDict
    /\ fileop = NoFileOp
    /\ result_dict = EmptyDict

\* get_user_input(steps_dict, step_title_input, step_number_input)
ResolveInsertTarget ==
    /\ pc = "asking"
    /\ \E t \in TitleInputs : \E r \in {GetUserInput(steps_dict, t, number_input)} :
           /\ pc' = IF r.ok THEN "resolved" ELSE "rejected"
           /\ insert_step_num' = r.step_number
           /\ error' = r.err
    /\ UNCHANGED <<fs, runs, steps_dict, step_type, renaming_plan, file_operations,
                   op_idx, current_index_data, updated_index_data, fs0, fileop,
                   result_dict, number_input, argv>>

NextInput == ResolveInsertTarget

SpecInput == InitInput /\ [][NextInput]_vars

\* the largest existing step number, 0 for an empty map
MaxExisting ==
    IF DOMAIN steps_dict = {} THEN 0
    ELSE CHOOSE k \in DOMAIN steps_dict : \A j \in DOMAIN steps_dict : j <= k

RangeMessage ==
    <<"Invalid step number: ">> \o number_input
    \o <<". Please enter a valid step number between 1 and ">>
    \o Str(MaxExisting + 1) \o <<".">>

\* C13: for a typed number, get_user_input returns it if and only if it lies
\* in 1..(largest existing step number + 1); any other number fails with the
\* error whose message names that range; for an empty step map only 1 is
\* accepted.
C13_InsertTarget ==
    (pc \in {"resolved", "rejected"} /\ IntParse(number_input).ok) =>
        /\ pc = "resolved" <=> IntParse(number_input).val \in 1..(MaxExisting + 1)
        /\ pc = "resolved" => insert_step_num = IntParse(number_input).val /\ error = Empty
        /\ pc = "rejected" => error = RangeMessage
        /\ steps_dict = EmptyDict => (pc = "resolved" <=> IntParse(number_input).val = 1)

C13_Witness ==
    /\ pc = "resolved"
    /\ DOMAIN steps_dict = 1..MaxSteps
    /\ number_input = Str(MaxSteps + 1)
    /\ insert_step_num = MaxSteps + 1

-----------------------------------------------------------------------------
(* get_current_steps_dict on a directory listing *)

\* the largest number of entries of the directory that is scanned
MaxEntries == 2

\* names a directory may hold, each as a directory or as a file
EntryNames ==
    {S_step \o <<"1">>, S_step \o <<"2">> \o S_md, S_step \o <<"0">>,
     S_step \o <<"-", "1">>, S_step \o <<"0", "1">>, S_step \o <<"x">>,
     <<"n", "o", "t", "e", "s">> \o S_md, S_step, S_step \o S_step \o <<"2">>}

InitScan ==
    /\ \E N \in SUBSET EntryNames :
           /\ Cardinality(N) <= MaxEntries
           /\ \E kind \in [N -> {"dir", "file"}] :
                  fs = [n \in N |-> IF kind[n] = "dir" THEN Dir
                                    ELSE File(Text(Empty), DefaultMode)]
    /\ pc = "listing"
    /\ steps_dict = EmptyDict
    /\ fs0 = fs
    /\ number_input = Empty
    /\ argv = <<>>
    /\ insert_step_num = 0
    /\ error = Empty
    /\ step_type = ""
    /\ runs = 0
    /\ renaming_plan = <<>>
    /\ file_operations = <<>>
    /\ op_idx = 1
    /\ current_index_data = NoData
    /\ updated_index_data = NoData
    /\ fileop = NoFileOp
    /\ result_dict = EmptyDict

\* get_current_steps_dict(os.listdir("."))
ScanDirectory ==
    /\ pc = "listing"
    /\ \E directory_items \in Orders(TopLevel(fs)) :
           steps_dict' = GetCurrentStepsDict(directory_items, fs)
    /\ pc' = "scanned"
    /\ UNCHANGED <<fs, runs, insert_step_num, step_type, renaming_plan, file_operations,
                   op_idx, current_index_data, updated_index_data, fs0, error, fileop,
                   result_dict, number_input, argv>>

NextScan == ScanDirectory

SpecScan == InitScan /\ [][NextScan]_vars

\* C14: the scan returns a map whose keys are all positive integers and whose
\* value for key N is a listing entry named stepN, a directory, or stepN.md;
\* every other entry is left out.
C14_ScanMap ==
    (pc = "scanned") =>
        \A k \in DOMAIN steps_dict :
            /\ k > 0
            /\ steps_dict[k] \in TopLevel(fs)
            /\ \/ steps_dict[k] = S_step \o Str(k) /\ IsDir(fs, steps_dict[k])
               \/ steps_dict[k] = S_step \o Str(k) \o S_md

-----------------------------------------------------------------------------
(* The insertion flow followed by a second scan *)

IsFlat(name) == EndsWith(name, S_md)

\* C15: for a directory of step directories and flat stepN.md files numbered
\* 1..N, after the scan, the plan for P, the renames and the new-step
\* operations, a second scan (whatever the order of the listing) gives a map
\* with keys 1..N+1 in which every shifted step k+1 is an entry of the form
\* step k had: the directory step(k+1), or the flat file step(k+1).md.
C15_RoundTrip ==
    (pc = "done" /\ DOMAIN steps_dict = 1..Cardinality(DOMAIN steps_dict)) =>
        \A directory_items \in Orders(TopLevel(fs)) :
            LET rescanned == GetCurrentStepsDict(directory_items, fs)
            IN  /\ DOMAIN rescanned = 1..(Cardinality(DOMAIN steps_dict) + 1)
                /\ \A k \in DOMAIN steps_dict :
                       k >= insert_step_num =>
                           rescanned[k + 1] = IF IsFlat(steps_dict[k])
                                              THEN S_step \o Str(k + 1) \o S_md
                                              ELSE S_step \o Str(k + 1)

-----------------------------------------------------------------------------
(* The guards on the mutations of main() *)

\* C16: every operation main() applies has paths the validator accepts, and
\* an operation whose target (or rename destination) resolves outside the
\* working directory is refused: it changes nothing and ends the run.
C16_GuardedMutations ==
    [][(pc = "exec" /\ op_idx <= Len(file_operations))
          => /\ FileOperation(CurrentOp.operation, CurrentOp.path,
                              CurrentOp.content, CurrentOp.mode).ok
             /\ ResolvesOutside(fs, CurrentOp) => (fs' = fs /\ pc' = "failed")]_vars

-----------------------------------------------------------------------------
(* The order of events within one run of main() *)

\* the renaming operations of the current run (main, line 544)
RenamingOperations == CalculateRenamingOperations(renaming_plan, fs0)
IndexJson(f) == IF S_index_json \in DOMAIN f THEN f[S_index_json] ELSE None

\* C17: the list main() executes is the renaming operations followed by the
\* new-step operations (no rename among the latter); while it is executed the
\* tree is the initial tree with the first op_idx - 1 operations applied in
\* that order and index.json as before the run; index.json is rewritten only
\* when every operation has been applied; after a failed operation index.json
\* still has its previous content.
C17_RunOrder ==
    /\ pc \in {"exec", "done"}
          => \E ren \in {RenamingOperations} :
             \E new \in {SubSeq(file_operations, Len(ren) + 1, Len(file_operations))} :
             \E applied \in {AppliedInOrder(fs0, file_operations, op_idx - 1)} :
                /\ SubSeq(file_operations, 1, Len(ren)) = ren
                /\ \E t \in TitleInputs :
                       new = CalculateNewStepFileOperations(insert_step_num, t, step_type)
                /\ \A i \in 1..Len(new) : new[i].operation # "rename"
                /\ pc = "exec"
                      => /\ fs = applied
                         /\ IndexJson(fs) = IndexJson(fs0)
                /\ pc = "done"
                      => /\ op_idx = Len(file_operations) + 1
                         /\ fs = WriteFile(applied, S_index_json,
                                           JsonDump(updated_index_data)).fs
    /\ pc = "failed"
          => /\ IndexJson(fs) = IndexJson(fs0)
             /\ \/ fs = fs0
                \/ /\ op_idx \in 1..Len(file_operations)
                   /\ fs = AppliedInOrder(fs0, file_operations, op_idx - 1)

\* a new-step operation failed after a rename had been applied
C17_Witness ==
    /\ pc = "failed"
    /\ op_idx \in (Len(RenamingOperations) + 1)..Len(file_operations)
    /\ \E i \in 1..Len(RenamingOperations) : file_operations[i].operation = "rename"
    /\ fs # fs0
    /\ IndexJson(fs) = IndexJson(fs0)
    /\ IndexJson(fs) # None

-----------------------------------------------------------------------------
(* A wrong answer to the question for the step number *)

\* the answer typed in the current run is no number, or a number outside
\* 1..(highest step number + 1); Empty: the question was not asked
WrongNumber ==
    /\ number_input # Empty
    /\ \/ ~IntParse(number_input).ok
       \/ IntParse(number_input).val \notin 1..(HighestStepNum(steps_dict) + 1)

InputErrors ==
    {<<"invalid literal for int() with base 10: ">> \o number_input,
     <<"Invalid step number: ">> \o number_input
         \o <<". Please enter a valid step number between 1 and ">>
         \o Str(HighestStepNum(steps_dict) + 1) \o <<".">>}

\* C18: when the number typed is not numeric or out of range, the run ends
\* with that error reported and without having executed any operation: the
\* tree, index.json included, is the tree the run started from.
C18_InputErrorAborts ==
    WrongNumber => /\ pc = "failed"
                   /\ error \in InputErrors
                   /\ fs = fs0

\* a run on a directory with steps, ended by a number beyond the range
C18_Witness ==
    /\ pc = "failed"
    /\ DOMAIN steps_dict # {}
    /\ IntParse(number_input).ok
    /\ IntParse(number_input).val = HighestStepNum(steps_dict) + 2
    /\ error \in InputErrors
    /\ fs = fs0

-----------------------------------------------------------------------------
(* validate_course on an index.json of any content.  A parsed document is   *)
(* a JSON value that carries its type: null, a boolean, a number, a string, *)
(* a list or a dict.                                                        *)

\* the largest number of entries of details.steps
MaxManifestSteps == 2

JNull == [null |-> TRUE]
JBool(b) == [bool |-> b]
JNum(n) == [num |-> n]
JStr(s) == [str |-> s]
JList(items) == [list |-> items]
JDict(d) == [dict |-> d]

IsJStr(v) == "str" \in DOMAIN v
IsJList(v) == "list" \in DOMAIN v
IsJDict(v) == "dict" \in DOMAIN v

\* bool(v)
PyTruthy(v) ==
    IF "null" \in DOMAIN v THEN FALSE
    ELSE IF "bool" \in DOMAIN v THEN v.bool
    ELSE IF "num" \in DOMAIN v THEN v.num # 0
    ELSE IF IsJStr(v) THEN v.str # <<>>
    ELSE IF IsJList(v) THEN v.list # <<>>
    ELSE DOMAIN v.dict # {}

\* the characters of the keys validate_course looks up
KeyChars(key) ==
    CASE key = "title" -> <<"t", "i", "t", "l", "e">>
      [] key = "description" -> <<"d", "e", "s", "c", "r", "i", "p", "t", "i", "o", "n">>
      [] key = "details" -> <<"d", "e", "t", "a", "i", "l", "s">>
      [] key = "steps" -> S_step \o <<"s">>
      [] key = "text" -> <<"t", "e", "x", "t">>
      [] key = "verify" -> <<"v", "e", "r", "i", "f", "y">>
      [] key = "background" -> <<"b", "a", "c", "k", "g", "r", "o", "u", "n", "d">>

\* key in v: membership in a dict's keys, in a list's items, in a string's
\* substrings; any other value is not iterable
PyIn(key, v) ==
    IF IsJDict(v) THEN IF key \in DOMAIN v.dict THEN "true" ELSE "false"
    ELSE IF IsJList(v)
    THEN IF \E i \in 1..Len(v.list) : v.list[i] = JStr(KeyChars(key)) THEN "true" ELSE "false"
    ELSE IF IsJStr(v) THEN IF Contains(v.str, KeyChars(key)) THEN "true" ELSE "false"
    ELSE "TypeError"

\* key in v and v[key]: a list and a string take no string as an index
HasTruthy(v, key) ==
    IF PyIn(key, v) # "true" THEN PyIn(key, v)
    ELSE IF ~IsJDict(v) THEN "TypeError"
    ELSE IF PyTruthy(v.dict[key]) THEN "true" ELSE "false"

\* all(key in v and v[key] for key in keys), from key i on
RECURSIVE AllTruthy(_, _, _)
AllTruthy(v, keys, i) ==
    IF i > Len(keys) THEN "true"
    ELSE IF HasTruthy(v, keys[i]) # "true" THEN HasTruthy(v, keys[i])
    ELSE AllTruthy(v, keys, i + 1)

\* what a for loop over v visits: items, keys, characters
Iterated(v) ==
    IF IsJList(v) THEN v.list
    ELSE IF IsJStr(v) THEN [i \in 1..Len(v.str) |-> JStr(<<v.str[i]>>)]
    ELSE LET keys == Sorted({i \in 1..7 : <<"title", "description", "details", "steps",
                                           "text", "verify", "background">>[i] \in DOMAIN v.dict})
         IN  [i \in 1..Len(keys) |->
                JStr(KeyChars(<<"title", "description", "details", "steps",
                                "text", "verify", "background">>[keys[i]]))]

Returns(is_valid, message) == [raised |-> FALSE, is_valid |-> is_valid, message |-> message]
Raises(exception) == [raised |-> TRUE, is_valid |-> FALSE, message |-> <<exception>>]

\* the check of an optional script that looks at verify only
ScriptCheckVerifyOnly(f, course_path, step, key) ==
    IF key \notin DOMAIN step.dict \/ key # "verify" THEN "true"
    ELSE IF ~IsJStr(step.dict[key]) THEN "TypeError"
    ELSE IF Exists(f, PathJoin(course_path, step.dict[key].str)) THEN "true" ELSE "false"

\* lines 58-65: the check of one optional script of a step
ScriptCheck(f, course_path, step, key) ==
    IF key \notin DOMAIN step.dict THEN "true"
    ELSE IF ~IsJStr(step.dict[key]) THEN "TypeError"
    ELSE IF Exists(f, PathJoin(course_path, step.dict[key].str)) THEN "true" ELSE "false"

\* lines 50-65: the loop over the steps, from entry i on
RECURSIVE ValidateEntries(_, _, _, _)
ValidateEntries(f, course_path, steps, i) ==
    IF i > Len(steps) THEN Returns(TRUE, <<"Valid">>)
    ELSE LET step == steps[i]
             fields == AllTruthy(step, <<"title", "text">>, 1)
         IN  IF fields = "TypeError" THEN Raises("TypeError")
             ELSE IF fields = "false"
             THEN Returns(FALSE, <<"Step ">> \o Str(i) \o <<" missing required fields">>)
             ELSE IF ~IsJStr(step.dict.text) THEN Raises("TypeError")
             ELSE IF ~Exists(f, PathJoin(course_path, step.dict.text.str))
             THEN Returns(FALSE, <<"Missing step file: ">> \o step.dict.text.str)
             ELSE IF ScriptCheck(f, course_path, step, "verify") = "TypeError"
             THEN Raises("TypeError")
             ELSE IF ScriptCheck(f, course_path, step, "verify") = "false"
             THEN Returns(FALSE, <<"Missing verify script: ">> \o step.dict.verify.str)
             ELSE IF ScriptCheck(f, course_path, step, "background") = "TypeError"
             THEN Raises("TypeError")
             ELSE IF ScriptCheck(f, course_path, step, "background") = "false"
             THEN Returns(FALSE, <<"Missing background script: ">> \o step.dict.background.str)
             ELSE ValidateEntries(f, course_path, steps, i + 1)

\* lines 23-67: the body of the try statement
ValidateChecks(f, course_path) ==
    LET index_path == PathJoin(course_path, S_index_json)
    IN  IF ~Exists(f, index_path) THEN Returns(FALSE, <<"Missing index.json file">>)
        ELSE IF IsDir(f, index_path) THEN Raises("IsADirectoryError")
        ELSE LET content == f[RealPath(f, index_path)].content
             IN  IF ~JsonParses(content) /\ LStrip(RStrip(content.str)) = Empty
                 THEN Returns(FALSE, <<"Empty index.json file">>)
                 ELSE IF ~JsonParses(content)
                 THEN Returns(FALSE, <<"Invalid JSON in index.json">>)
                 ELSE LET index_data == JsonLoads(content)
                          required == AllTruthy(index_data,
                                                <<"title", "description", "details">>, 1)
                      IN  IF ~PyTruthy(index_data)
                          THEN Returns(FALSE, <<"Empty JSON object in index.json">>)
                          ELSE IF required = "TypeError" THEN Raises("TypeError")
                          ELSE IF required = "false"
                          THEN Returns(FALSE, <<"Missing required fields">>)
                          ELSE IF HasTruthy(index_data.dict.details, "steps") = "TypeError"
                          THEN Raises("TypeError")
                          ELSE IF HasTruthy(index_data.dict.details, "steps") = "false"
                          THEN Returns(FALSE, <<"Missing steps in index.json">>)
                          ELSE LET steps == index_data.dict.details.dict.steps
                               IN  IF ~(IsJList(steps) \/ IsJStr(steps) \/ IsJDict(steps))
                                   THEN Raises("TypeError")
                                   ELSE ValidateEntries(f, course_path, Iterated(steps), 1)

\* a handler that lets the errors of the lookups through
HandleOSErrorOnly(r) ==
    IF r.raised /\ r.message = <<"IsADirectoryError">>
    THEN Returns(FALSE, <<"Validation error: ">> \o r.message)
    ELSE r

\* lines 69-70: except Exception
HandleException(r) ==
    IF r.raised THEN Returns(FALSE, <<"Validation error: ">> \o r.message) ELSE r

\* validate_course: what the caller gets
ValidateCourseResult(f, course_path) == HandleException(ValidateChecks(f, course_path))

\* the course: step1 with its markdown, background.sh and verify.sh; nothing
\* of step2 exists
CourseFiles == Scenario(<<1>>, <<"BV">>, FALSE)

OptionalField(key, values) == {{}} \cup {{<<key, v>>} : v \in values}

\* the entries of details.steps: records with and without their title, with a
\* text and scripts that exist or do not, and entries of other types
StepEntries ==
    {JDict(FromPairs(title \cup {<<"text", JStr(text)>>} \cup verify \cup background)) :
        title \in OptionalField("title", {JStr(StepTitle(1))}),
        text \in {StepText(1), StepText(2)},
        verify \in OptionalField("verify", {JStr(StepScript(1, S_verify_sh)),
                                            JStr(StepScript(2, S_verify_sh))}),
        background \in OptionalField("background", {JStr(StepScript(1, S_background_sh)),
                                                    JStr(StepScript(2, S_background_sh))})}
    \cup {JNum(5), JStr(<<"x">>), JStr(KeyChars("title")),
          JDict(FromPairs({<<"title", JStr(StepTitle(1))>>})),
          JDict(FromPairs({<<"title", JStr(StepTitle(1))>>, <<"text", JStr(Empty)>>})),
          JDict(FromPairs({<<"title", JStr(StepTitle(1))>>, <<"text", JNum(5)>>})),
          JDict(FromPairs({<<"title", JStr(StepTitle(1))>>, <<"text", JStr(StepText(1))>>,
                           <<"verify", JNum(3)>>})),
          JDict(FromPairs({<<"title", JStr(StepTitle(1))>>, <<"text", JStr(StepText(1))>>,
                           <<"background", JNull>>}))}

\* documents that are no dict
PlainDocuments ==
    {JNull, JBool(FALSE), JNum(0), JStr(Empty), JList(<<>>), JDict(FromPairs({})),
     JNum(5), JBool(TRUE), JStr(<<"x">>), JStr(KeyChars("title")),
     JList(<<JStr(KeyChars("title"))>>), JList(<<JNum(1)>>)}

\* values of details other than a dict with a list of steps
OtherDetails ==
    {JDict(FromPairs({})), JStr(KeyChars("steps")), JStr(<<"x">>),
     JList(<<JStr(KeyChars("steps"))>>), JNum(1), JBool(TRUE)}
    \cup {JDict(FromPairs({<<"steps", v>>})) :
            v \in {JList(<<>>), JNull, JNum(7), JBool(TRUE), JStr(<<"a", "b">>),
                   JDict(FromPairs({<<"title", JNum(1)>>}))}}

Document(title, description, details) ==
    JDict(FromPairs(title \cup description \cup details))

IndexFile(document) == File(JsonDump(document), DefaultMode)

\* the courses validation is run on: the files of step1 and an index.json that
\* is missing, a directory, no JSON, or a document of any shape
CourseTree(f) ==
    \/ f = CourseFiles
    \/ f = Put(CourseFiles, S_index_json, Dir)
    \/ \E t \in {Empty, <<" ">>, <<"{">>} :
         f = Put(CourseFiles, S_index_json, File(Text(t), DefaultMode))
    \/ \E document \in PlainDocuments : f = Put(CourseFiles, S_index_json, IndexFile(document))
    \/ \E title \in OptionalField("title", {JStr(Empty), JStr(<<"T">>), JNum(1)}) :
       \E description \in OptionalField("description", {JStr(<<"D">>)}) :
       \E details \in OptionalField("details", OtherDetails) :
         f = Put(CourseFiles, S_index_json,
                  IndexFile(Document(title, description, details)))
    \/ \E n \in 1..MaxManifestSteps : \E steps \in [1..n -> StepEntries] :
         f = Put(CourseFiles, S_index_json,
                  IndexFile(Document({<<"title", JStr(<<"T">>)>>},
                                     {<<"description", JStr(<<"D">>)>>},
                                     {<<"details", JDict(FromPairs({<<"steps", JList(steps)>>}))>>})))

InitValidate ==
    /\ CourseTree(fs)
    /\ pc = "course"
    /\ runs = 0
    /\ steps_dict = EmptyDict
    /\ insert_step_num = 0
    /\ step_type = ""
    /\ renaming_plan = <<>>
    /\ file_operations = <<>>
    /\ op_idx = 1
    /\ current_index_data = NoData
    /\ updated_index_data = NoData
    /\ fs0 = fs
    /\ error = Empty
    /\ fileop = NoFileOp
    /\ result_dict = EmptyDict
    /\ number_input = Empty
    /\ argv = <<>>

\* validate_course(".") is called: it returns a pair, or an exception reaches
\* the caller
CallValidateCourse ==
    /\ pc = "course"
    /\ \E r \in {ValidateCourseResult(fs, Cwd)} :
         /\ pc' = IF r.raised THEN "raised" ELSE IF r.is_valid THEN "valid" ELSE "invalid"
         /\ error' = r.message
    /\ UNCHANGED <<fs, runs, steps_dict, insert_step_num, step_type, renaming_plan,
                   file_operations, op_idx, current_index_data, updated_index_data,
                   fs0, fileop, result_dict, number_input, argv>>

NextValidate == CallValidateCourse

SpecValidate == InitValidate /\ [][NextValidate]_vars

\* the checks of validate_course, each stated on the course itself
ManifestNode == fs[S_index_json]
ManifestDocument == JsonLoads(ManifestNode.content)
ManifestReadable ==
    /\ S_index_json \in DOMAIN fs
    /\ ManifestNode.kind = "file"
    /\ JsonParses(ManifestNode.content)
    /\ PyTruthy(ManifestDocument)
FieldsPresent ==
    /\ IsJDict(ManifestDocument)
    /\ \A key \in {"title", "description", "details"} :
          key \in DOMAIN ManifestDocument.dict /\ PyTruthy(ManifestDocument.dict[key])
ManifestDetails == ManifestDocument.dict.details
StepsPresent ==
    /\ IsJDict(ManifestDetails)
    /\ "steps" \in DOMAIN ManifestDetails.dict
    /\ PyTruthy(ManifestDetails.dict.steps)
ManifestSteps == ManifestDetails.dict.steps
StepsIterable == IsJList(ManifestSteps) \/ IsJStr(ManifestSteps) \/ IsJDict(ManifestSteps)
Entries == Iterated(ManifestSteps)

EntryFields(e) ==
    IsJDict(e) /\ \A key \in {"title", "text"} : key \in DOMAIN e.dict /\ PyTruthy(e.dict[key])
Named(e, key) == IsJStr(e.dict[key]) /\ Exists(fs, PathJoin(Cwd, e.dict[key].str))
EntryPasses(e) ==
    /\ EntryFields(e)
    /\ Named(e, "text")
    /\ "verify" \in DOMAIN e.dict => Named(e, "verify")
    /\ "background" \in DOMAIN e.dict => Named(e, "background")

EveryCheckPasses ==
    /\ ManifestReadable /\ FieldsPresent /\ StepsPresent /\ StepsIterable
    /\ \A i \in 1..Len(Entries) : EntryPasses(Entries[i])

\* the handler's message for a check that could not be evaluated
Broken == {<<"Validation error: ", "TypeError">>}

\* the message of the first check of an entry that fails, entry number i
EntryMessage(e, i) ==
    IF ~EntryFields(e)
    THEN {<<"Step ">> \o Str(i) \o <<" missing required fields">>}
         \cup (IF IsJDict(e) THEN {} ELSE Broken)
    ELSE IF ~Named(e, "text")
    THEN IF IsJStr(e.dict.text) THEN {<<"Missing step file: ">> \o e.dict.text.str} ELSE Broken
    ELSE IF "verify" \in DOMAIN e.dict /\ ~Named(e, "verify")
    THEN IF IsJStr(e.dict.verify)
         THEN {<<"Missing verify script: ">> \o e.dict.verify.str} ELSE Broken
    ELSE IF IsJStr(e.dict.background)
         THEN {<<"Missing background script: ">> \o e.dict.background.str} ELSE Broken

\* the message of the first failing check in the order of the function; a
\* check applied to a value of another type than it expects fails with its
\* own message or breaks
FirstFailure ==
    IF S_index_json \notin DOMAIN fs THEN {<<"Missing index.json file">>}
    ELSE IF ManifestNode.kind # "file" THEN {<<"Validation error: ", "IsADirectoryError">>}
    ELSE IF ~JsonParses(ManifestNode.content)
    THEN IF \A i \in 1..Len(ManifestNode.content.str) : ManifestNode.content.str[i] = " "
         THEN {<<"Empty index.json file">>} ELSE {<<"Invalid JSON in index.json">>}
    ELSE IF ~PyTruthy(ManifestDocument) THEN {<<"Empty JSON object in index.json">>}
    ELSE IF ~FieldsPresent
    THEN {<<"Missing required fields">>} \cup (IF IsJDict(ManifestDocument) THEN {} ELSE Broken)
    ELSE IF ~StepsPresent
    THEN {<<"Missing steps in index.json">>} \cup (IF IsJDict(ManifestDetails) THEN {} ELSE Broken)
    ELSE IF ~StepsIterable THEN Broken
    ELSE LET bad == {i \in 1..Len(Entries) : ~EntryPasses(Entries[i])}
         IN  EntryMessage(Entries[SetMin(bad)], SetMin(bad))

\* C19: validate_course returns (True, "Valid") exactly when every check
\* passes, and otherwise False with the message of the first check, in the
\* order of the function, that does not pass; a background field that names
\* a script which does not exist gives "Missing background script: <path>".
C19_FirstFailingCheck ==
    pc \in {"valid", "invalid", "raised"}
        => /\ pc = "valid" <=> EveryCheckPasses
           /\ pc = "valid" => error = <<"Valid">>
           /\ pc # "valid" => error \in FirstFailure

\* two steps: the first passes, the second has its text and its verify script
\* and names a background script that does not exist
C19_Witness ==
    /\ pc = "invalid"
    /\ ManifestReadable /\ FieldsPresent /\ StepsPresent /\ IsJList(ManifestSteps)
    /\ Len(Entries) = 2
    /\ EntryPasses(Entries[1])
    /\ "background" \in DOMAIN Entries[1].dict
    /\ EntryFields(Entries[2]) /\ Named(Entries[2], "text")
    /\ "verify" \in DOMAIN Entries[2].dict /\ Named(Entries[2], "verify")
    /\ "background" \in DOMAIN Entries[2].dict
    /\ error = <<"Missing background script: ">> \o StepScript(2, S_background_sh)

\* C20: whatever index.json holds, the call of validate_course ends with a
\* pair of a boolean and a message; no exception reaches the caller.
C20_NeverRaises ==
    /\ pc # "raised"
    /\ pc \in {"valid", "invalid"} => error # Empty

\* a manifest of an unexpected shape: a check on it broke and the caller got
\* False with the handler's message
C20_Witness ==
    /\ pc = "invalid"
    /\ ManifestReadable
    /\ ~(FieldsPresent /\ StepsPresent /\ IsJList(ManifestSteps)
         /\ \A i \in 1..Len(Entries) : IsJDict(Entries[i]))
    /\ error \in Broken

-----------------------------------------------------------------------------
(* validate_all and the validate command of main()                          *)

\* os.listdir(path): the names in a directory, or the error raised
ListDir(f, p) ==
    IF ~Exists(f, p) THEN [ok |-> FALSE, names |-> {}, err |-> "FileNotFoundError"]
    ELSE IF ~IsDir(f, p) THEN [ok |-> FALSE, names |-> {}, err |-> "NotADirectoryError"]
    ELSE [ok |-> TRUE,
          names |-> IF RealPath(f, p) = Cwd THEN TopLevel(f)
                    ELSE {k \in Children(f, RealPath(f, p)) : DirName(k) = RealPath(f, p)},
          err |-> "none"]

\* lines 126-135: the loop of validate_all over the steps, from entry i on;
\* the value of all_valid when the loop ends, or the exception raised
RECURSIVE BatchEntries(_, _, _, _, _)
BatchEntries(f, base_path, steps, i, all_valid) ==
    IF i > Len(steps) THEN IF all_valid THEN "true" ELSE "false"
    ELSE LET step == steps[i]
         IN  IF PyIn("text", step) = "TypeError" THEN "TypeError"
             ELSE IF PyIn("text", step) = "false"
             THEN BatchEntries(f, base_path, steps, i + 1, FALSE)
             ELSE IF ~IsJDict(step) THEN "TypeError"
             ELSE IF ~IsJStr(step.dict.text) THEN "TypeError"
             ELSE BatchEntries(f, base_path, steps, i + 1,
                               all_valid /\ Exists(f, PathJoin(base_path, step.dict.text.str)))

\* lines 108-135: the body of the try statement of validate_all
BatchChecks(f, base_path) ==
    LET index_path == PathJoin(base_path, S_index_json)
    IN  IF IsDir(f, index_path) THEN "IsADirectoryError"
        ELSE LET content == f[RealPath(f, index_path)].content
             IN  IF ~JsonParses(content) THEN "false"
                 ELSE LET index_data == JsonLoads(content)
                      IN  IF PyIn("details", index_data) # "true" THEN PyIn("details", index_data)
                          ELSE IF ~IsJDict(index_data) THEN "TypeError"
                          ELSE IF PyIn("steps", index_data.dict.details) # "true"
                          THEN PyIn("steps", index_data.dict.details)
                          ELSE IF ~IsJDict(index_data.dict.details) THEN "TypeError"
                          ELSE LET steps == index_data.dict.details.dict.steps
                               IN  IF ~(IsJList(steps) \/ IsJStr(steps) \/ IsJDict(steps))
                                   THEN "TypeError"
                                   ELSE BatchEntries(f, base_path, Iterated(steps), 1, TRUE)

BatchReturns(success) == [raised |-> FALSE, success |-> success, exception |-> "none"]
BatchRaises(exception) == [raised |-> TRUE, success |-> FALSE, exception |-> exception]

\* validate_all that asks for the manifest only
ValidateAllIgnoringEntries(f, base_path) ==
    IF ~Exists(f, PathJoin(base_path, S_index_json))
    THEN IF ListDir(f, base_path).ok THEN BatchReturns(TRUE)
         ELSE BatchRaises(ListDir(f, base_path).err)
    ELSE BatchReturns(BatchChecks(f, base_path) = "true")

\* validate_all: lines 96-103 are outside the try statement, an exception
\* raised inside it makes the function return False (lines 137-139)
ValidateAll(f, base_path) ==
    IF ~Exists(f, PathJoin(base_path, S_index_json))
    THEN IF ~ListDir(f, base_path).ok THEN BatchRaises(ListDir(f, base_path).err)
         ELSE BatchReturns(ListDir(f, base_path).names = {})
    ELSE BatchReturns(BatchChecks(f, base_path) = "true")

S_validate == <<"validate">>
S_path_option == <<"--path">>
S_program == <<"killercoda-cli">>

\* cli.py line 515: sys.argv[3] if len(sys.argv) > 3 and sys.argv[2] == "--path"
PathArgument == IF Len(argv) > 3 /\ argv[3] = S_path_option THEN argv[4] ELSE Cwd

\* the paths typed after --path: the directory itself, a directory in it, a
\* name that does not exist, a file
TypedPaths == {Cwd, S_step \o Str(1), S_step \o Str(2), StepText(1)}
CommandLines ==
    {<<S_program, S_validate>>, <<S_program, S_validate, S_path_option>>}
    \cup {<<S_program, S_validate, path>> : path \in TypedPaths}
    \cup {<<S_program, S_validate, S_path_option, path>> : path \in TypedPaths}

EmptyTree == FromPairs({})
EmptyStepTree == FromPairs({<<S_step \o Str(1), Dir>>})
\* the course with a manifest that names step1 and its two scripts
ValidCourse ==
    Put(CourseFiles, S_index_json,
        IndexFile(Document({<<"title", JStr(<<"T">>)>>}, {<<"description", JStr(<<"D">>)>>},
                           {<<"details", JDict(FromPairs({<<"steps", JList(<<
                               JDict(FromPairs({<<"title", JStr(StepTitle(1))>>,
                                                <<"text", JStr(StepText(1))>>,
                                                <<"verify", JStr(StepScript(1, S_verify_sh))>>,
                                                <<"background",
                                                  JStr(StepScript(1, S_background_sh))>>}))>>)>>}))>>})))

InitBatch ==
    /\ \/ CourseTree(fs) /\ argv = <<S_program, S_validate>>
       \/ /\ fs \in {EmptyTree, EmptyStepTree, CourseFiles, ValidCourse}
          /\ argv \in CommandLines
    /\ pc = "batch"
    /\ runs = 0
    /\ steps_dict = EmptyDict
    /\ insert_step_num = 0
    /\ step_type = ""
    /\ renaming_plan = <<>>
    /\ file_operations = <<>>
    /\ op_idx = 1
    /\ current_index_data = NoData
    /\ updated_index_data = NoData
    /\ fs0 = fs
    /\ error = Empty
    /\ fileop = NoFileOp
    /\ result_dict = EmptyDict
    /\ number_input = Empty

\* validate_all(path) called directly, as the tests call it
CallValidateAll ==
    /\ pc = "batch"
    /\ \E r \in {ValidateAll(fs, PathArgument)} :
         /\ pc' = IF r.raised THEN "escaped" ELSE IF r.success THEN "passed" ELSE "rejected"
         /\ error' = IF r.raised THEN <<r.exception>> ELSE Empty
    /\ UNCHANGED <<fs, runs, steps_dict, insert_step_num, step_type, renaming_plan,
                   file_operations, op_idx, current_index_data, updated_index_data,
                   fs0, fileop, result_dict, number_input, argv>>

\* main() with the validate command (lines 513-518): sys.exit with the status
\* of validate_all; an exception of validate_all is printed by the handler of
\* main (lines 569-572) and main returns, which is exit status 0
ValidateCommand ==
    /\ pc = "batch"
    /\ \E r \in {ValidateAll(fs, PathArgument)} :
         /\ pc' = IF r.raised \/ r.success THEN "exit0" ELSE "exit1"
         /\ error' = IF r.raised THEN <<r.exception>> ELSE Empty
    /\ UNCHANGED <<fs, runs, steps_dict, insert_step_num, step_type, renaming_plan,
                   file_operations, op_idx, current_index_data, updated_index_data,
                   fs0, fileop, result_dict, number_input, argv>>

NextBatch ==
    \/ CallValidateAll
    \/ ValidateCommand

SpecBatch == InitBatch /\ [][NextBatch]_vars

\* the directory named on the command line holds something
HasEntries == \E k \in DOMAIN fs : k # PathArgument /\ (PathArgument = Cwd \/ Under(k, PathArgument))
ManifestAtPath == Exists(fs, PathJoin(PathArgument, S_index_json))

\* C21: for a directory without index.json, validate_all returns True when
\* the directory has no entry at all and False when it has at least one.
C21_EmptyDirectoryPasses ==
    (pc \in {"passed", "rejected", "escaped"} /\ IsDir(fs, PathArgument) /\ ~ManifestAtPath)
        => pc = IF HasEntries THEN "rejected" ELSE "passed"

\* validate_all returned True for the working directory, which holds nothing
C21_Witness ==
    /\ pc = "passed"
    /\ DOMAIN fs = {}
    /\ PathArgument = Cwd

\* C22: the validate command exits with status 0 exactly when validation of
\* the path succeeds, and with status 1 otherwise, whatever the path.
C22_ExitStatus ==
    pc \in {"exit0", "exit1"}
        => (pc = "exit0" <=> /\ ~ValidateAll(fs, PathArgument).raised
                             /\ ValidateAll(fs, PathArgument).success)

\* C30: for a directory with an index.json, validate_all returns True only if
\* validate_course returns (True, "Valid") for the same directory.
C30_ValidatorsAgree ==
    (pc = "passed" /\ ManifestAtPath)
        => ValidateCourseResult(fs, PathArgument) = Returns(TRUE, <<"Valid">>)

-----------------------------------------------------------------------------
(* The operation builders, called on the trees and tokens main() can hand them *)

\* what a step holds on disk: nothing, the flat stepN.md, or a directory
\* with any of its three scripts and its markdown
StepFileNames == {"background", "foreground", "verify", "md"}
BuildForms ==
    {[form |-> "none", files |-> {}], [form |-> "flat", files |-> {}]}
        \cup {[form |-> "dir", files |-> S] : S \in SUBSET StepFileNames}

BuildFile(k, name) ==
    CASE name = "background" -> StepScript(k, S_background_sh)
      [] name = "foreground" -> StepScript(k, S_foreground_sh)
      [] name = "verify" -> StepScript(k, S_verify_sh)
      [] OTHER -> StepText(k)

BuildNodes(k, form) ==
    CASE form.form = "none" -> {}
      [] form.form = "flat" ->
            {<<S_step \o Str(k) \o S_md, File(MdText(StepTitle(k)), DefaultMode)>>}
      [] OTHER ->
            {<<S_step \o Str(k), Dir>>}
                \cup {<<BuildFile(k, name), File(MdText(StepTitle(k)), DefaultMode)>> :
                        name \in form.files}

InitBuild ==
    /\ \E forms \in [1..MaxSteps -> BuildForms] :
           fs = FromPairs(UNION {BuildNodes(k, forms[k]) : k \in 1..MaxSteps})
    /\ steps_dict = GetCurrentStepsDict(CHOOSE items \in Orders(TopLevel(fs)) : TRUE, fs)
    /\ \E P \in 1..(MaxSteps + 1) :
           /\ insert_step_num = P
           /\ renaming_plan = PlanRenaming(steps_dict, P)
    /\ step_type \in TypeInputs
    /\ current_index_data = Manifest([j \in 1..MaxManifestSteps |-> StepRecord(j, "B")])
    /\ pc = "build"
    /\ runs = 0
    /\ file_operations = <<>>
    /\ updated_index_data = NoData
    /\ op_idx = 1
    /\ error = Empty
    /\ fileop = NoFileOp
    /\ fs0 = fs
    /\ result_dict = EmptyDict
    /\ number_input = Empty
    /\ argv = <<>>

\* main(): file_operations = calculate_renaming_operations(renaming_plan)
CallCalculateRenamingOperations ==
    /\ pc = "build"
    /\ file_operations' = CalculateRenamingOperations(renaming_plan, fs)
    /\ pc' = "renames"
    /\ UNCHANGED <<fs, runs, steps_dict, insert_step_num, step_type, renaming_plan, op_idx,
                   current_index_data, updated_index_data, fs0, error, fileop, result_dict,
                   number_input, argv>>

\* main(): file_operations = calculate_new_step_file_operations(...)
CallCalculateNewStepFileOperations ==
    /\ pc = "renames"
    /\ \E step_title \in TitleInputs :
           file_operations' =
               CalculateNewStepFileOperations(insert_step_num, step_title, step_type)
    /\ pc' = "new step"
    /\ UNCHANGED <<fs, runs, steps_dict, insert_step_num, step_type, renaming_plan, op_idx,
                   current_index_data, updated_index_data, fs0, error, fileop, result_dict,
                   number_input, argv>>

\* main(): updated_index_data = calculate_index_json_updates(...), same token
CallCalculateIndexJsonUpdates ==
    /\ pc = "new step"
    /\ \E step_title \in TitleInputs :
           updated_index_data' =
               CalculateIndexJsonUpdates(insert_step_num, step_title, current_index_data,
                                         step_type)
    /\ pc' = "manifest"
    /\ UNCHANGED <<fs, runs, steps_dict, insert_step_num, step_type, renaming_plan,
                   file_operations, op_idx, current_index_data, fs0, error, fileop,
                   result_dict, number_input, argv>>

NextBuild ==
    \/ CallCalculateRenamingOperations
    \/ CallCalculateNewStepFileOperations
    \/ CallCalculateIndexJsonUpdates

SpecBuild == InitBuild /\ [][NextBuild]_vars

\* the tree holds a node of this kind under this very name
HeldAs(kind, key) == key \in DOMAIN fs /\ fs[key].kind = kind

\* the renames of one plan entry, the markdown of a directory being renamed
\* always, or only when the directory holds it
EntryRenames(old_name, always_md) ==
    LET k == StepNumOf(old_name)
        scripts == SelectSeq(<<S_background_sh, S_foreground_sh, S_verify_sh>>,
                             LAMBDA script : HeldAs("file", StepScript(k, script)))
    IN  IF HeldAs("dir", old_name)
        THEN [i \in 1..Len(scripts) |->
                 Op("rename", StepScript(k, scripts[i]),
                    Text(StepScript(k + 1, scripts[i])), NoMode)]
             \o (IF always_md \/ HeldAs("file", StepText(k))
                 THEN <<Op("rename", StepText(k), Text(StepText(k + 1)), NoMode)>>
                 ELSE <<>>)
        ELSE <<Op("rename", old_name, Text(S_step \o Str(k + 1) \o S_md), NoMode)>>

RECURSIVE PlanOperations(_, _)
PlanOperations(plan, always_md) ==
    IF plan = <<>> THEN <<>>
    ELSE <<Op("makedirs", plan[1][2], None, NoMode)>>
         \o EntryRenames(plan[1][1], always_md)
         \o PlanOperations(Tail(plan), always_md)

\* C23 as stated: for each plan entry in plan order, first makedirs new; then,
\* for a directory, a rename of each existing script in the order background,
\* foreground, verify, followed by the rename of step<old>.md; for a bare
\* markdown file the single rename old -> new.md; and nothing else.
C23_EntryOperations ==
    pc = "renames" => file_operations = PlanOperations(renaming_plan, TRUE)

\* C23 amended: the same list, the rename of a directory's step<old>.md being
\* emitted only when the directory holds that file.
C23_ExistingFilesRenamed ==
    pc = "renames" => file_operations = PlanOperations(renaming_plan, FALSE)

\* a plan of a directory with two scripts and its markdown, then a flat step
C23_Witness ==
    /\ pc = "renames"
    /\ Len(renaming_plan) = 2
    /\ HeldAs("dir", S_step \o Str(2))
    /\ HeldAs("file", StepScript(2, S_background_sh))
    /\ ~HeldAs("file", StepScript(2, S_foreground_sh))
    /\ HeldAs("file", StepScript(2, S_verify_sh))
    /\ HeldAs("file", StepText(2))
    /\ HeldAs("file", S_step \o Str(1) \o S_md)
    /\ Len(file_operations) = 6

\* C24: for step N the builder emits makedirs stepN and the write of
\* stepN/stepN.md; for a regular step then the writes of background.sh and
\* foreground.sh and the chmod 0755 of both (6 operations); for a verify step
\* the write of verify.sh and its chmod 0755 (4 operations); every chmod
\* follows the write of its path and every write the makedirs of its directory.
C24_NewStepOperations ==
    (pc = "new step" /\ step_type \in {"r", "v"}) =>
        LET N == insert_step_num
            ops == file_operations
        IN  /\ step_type = "r" =>
                /\ [i \in 1..Len(ops) |-> ops[i].operation] =
                       <<"makedirs", "write_file", "write_file", "write_file",
                         "chmod", "chmod">>
                /\ [i \in 1..Len(ops) |-> ops[i].path] =
                       <<S_step \o Str(N), StepText(N),
                         StepScript(N, S_background_sh), StepScript(N, S_foreground_sh),
                         StepScript(N, S_background_sh), StepScript(N, S_foreground_sh)>>
            /\ step_type = "v" =>
                /\ [i \in 1..Len(ops) |-> ops[i].operation] =
                       <<"makedirs", "write_file", "write_file", "chmod">>
                /\ [i \in 1..Len(ops) |-> ops[i].path] =
                       <<S_step \o Str(N), StepText(N),
                         StepScript(N, S_verify_sh), StepScript(N, S_verify_sh)>>
            /\ \A i \in 1..Len(ops) :
                   /\ ops[i].operation = "chmod" =>
                          /\ ops[i].mode = Mode755
                          /\ \E j \in 1..(i - 1) : /\ ops[j].operation = "write_file"
                                                   /\ ops[j].path = ops[i].path
                   /\ ops[i].operation = "write_file" =>
                          \E j \in 1..(i - 1) : /\ ops[j].operation = "makedirs"
                                                /\ ops[j].path = DirName(ops[i].path)

\* the builder has answered for a regular step
C24_Witness ==
    /\ pc = "new step"
    /\ step_type = "r"
    /\ Len(file_operations) = 6

\* C28: every script path the new manifest record names (verify or
\* background) is written by an operation the builder emitted for the same
\* step-type token.
C28_TypeAgreement ==
    pc = "manifest" =>
        \A p \in 1..Len(updated_index_data.details.steps) :
            LET record == updated_index_data.details.steps[p]
            IN  record.title \in TitleInputs =>
                    \A key \in {"verify", "background"} \cap DOMAIN record :
                        \E i \in 1..Len(file_operations) :
                            /\ file_operations[i].operation = "write_file"
                            /\ file_operations[i].path = record[key]

-----------------------------------------------------------------------------
(* One insertion by main(), seen on the tree before (fs0) and after (fs) *)

\* before the run every step was a directory of this very name
DirectorySteps ==
    /\ DOMAIN steps_dict # {}
    /\ \A name \in TopLevel(fs0) \ {S_index_json} : fs0[name].kind = "dir"

\* the numbering of the steps had gaps
Gapped == DOMAIN steps_dict # 1..Cardinality(DOMAIN steps_dict)

\* C25: for a step map of directory steps with gaps and a valid position P,
\* after the renaming and new-step operations a second scan yields exactly the
\* old keys below P, the key P and k+1 for each old key k >= P, and every
\* step directory found holds its own step<N>.md.
C25_GappedRenaming ==
    (pc = "done" /\ DirectorySteps /\ Gapped) =>
        \A directory_items \in Orders(TopLevel(fs)) :
            LET rescanned == GetCurrentStepsDict(directory_items, fs)
            IN  /\ DOMAIN rescanned =
                       {k \in DOMAIN steps_dict : k < insert_step_num}
                           \cup {insert_step_num}
                           \cup {k + 1 : k \in {j \in DOMAIN steps_dict : j >= insert_step_num}}
                /\ \A n \in DOMAIN rescanned :
                       IsDir(fs, rescanned[n]) => IsFile(fs, StepText(n))

\* the files that were inside the directory of step k before the run
FilesOf(k) ==
    {key \in DOMAIN fs0 : Under(key, S_step \o Str(k)) /\ fs0[key].kind = "file"}

\* the name a file of step k carries inside step k+1
MovedName(k, key) ==
    IF key = StepText(k) THEN StepText(k + 1)
    ELSE PathJoin(S_step \o Str(k + 1), SubSeq(key, Len(S_step \o Str(k)) + 2, Len(key)))

\* C27: for every step k >= P in directory form, every file that was inside
\* step<k>/ before the insertion is inside step<k+1>/ afterwards, and none of
\* them remains in a directory that now carries another step's number.
C27_WholeStepMoves ==
    pc = "done" =>
        \A k \in DOMAIN steps_dict :
            (k >= insert_step_num /\ fs0[steps_dict[k]].kind = "dir") =>
                \A key \in FilesOf(k) :
                    /\ MovedName(k, key) \in DOMAIN fs
                    /\ fs[MovedName(k, key)].content = fs0[key].content
                    /\ (key \in DOMAIN fs /\ fs[key].content = fs0[key].content)
                           => \A items \in Orders(TopLevel(fs)) :
                                  \A n \in DOMAIN GetCurrentStepsDict(items, fs) :
                                      GetCurrentStepsDict(items, fs)[n] # S_step \o Str(k)

\* C29: for every position P that get_user_input accepts against the step
\* map of the directory, the new record is record P of details.steps of the
\* manifest written, also when the manifest held fewer records than the
\* highest step number.
C29_RecordAtPosition ==
    pc = "done" =>
        /\ insert_step_num <= Len(JsonLoads(fs[S_index_json].content).details.steps)
        /\ JsonLoads(fs[S_index_json].content).details.steps[insert_step_num].text
               = StepText(insert_step_num)
        /\ JsonLoads(fs[S_index_json].content).details.steps[insert_step_num].title
               \in TitleInputs

-----------------------------------------------------------------------------
(* main() run again and again on the tree the run before left *)

MaxInsertions == 2

\* N sequentially numbered steps, each a directory or a flat stepN.md
InitRepeat ==
    /\ \E N \in 1..MaxSteps : \E shape \in [1..N -> {"B", "F"}] :
           fs = Scenario([k \in 1..N |-> k], shape, TRUE)
    /\ pc = "idle"
    /\ runs = 0
    /\ steps_dict = EmptyDict
    /\ insert_step_num = 0
    /\ step_type = ""
    /\ renaming_plan = <<>>
    /\ file_operations = <<>>
    /\ op_idx = 1
    /\ current_index_data = NoData
    /\ updated_index_data = NoData
    /\ fs0 = fs
    /\ error = Empty
    /\ fileop = NoFileOp
    /\ result_dict = EmptyDict
    /\ number_input = Empty
    /\ argv = <<>>

\* main() called once more after a run that completed
MainAgain ==
    /\ pc \in {"idle", "done"}
    /\ runs < MaxInsertions
    /\ \E d \in {GetCurrentStepsDict(items, fs) : items \in Orders(TopLevel(fs))} :
       \E t \in TitleInputs : \E n \in NumberInputs : \E type \in {"r", "v"} :
           MainRun(d, t, n, type)

NextRepeat ==
    \/ MainAgain
    \/ ExecuteFileOperation
    \/ WriteIndexJson

SpecRepeat == InitRepeat /\ [][NextRepeat]_vars

\* the names of a directory in one of the orders os.listdir may give them
\* (the keys of a scan do not depend on the order)
RECURSIVE Listing(_)
Listing(S) ==
    IF S = {} THEN <<>>
    ELSE LET x == CHOOSE x \in S : TRUE IN <<x>> \o Listing(S \ {x})

\* the markdown of original step j lies under number n, as the flat
\* step<n>.md or as step<n>/step<n>.md
HoldsOriginal(n, j) ==
    \E key \in {S_step \o Str(n) \o S_md, StepText(n)} :
        IsFile(fs, key) /\ fs[key].content = MdText(StepTitle(j))

\* C26: after any sequence of completed insertions starting from N steps
\* numbered 1..N in directory or flat form, a scan yields exactly the keys
\* 1..N+m and finds the markdown of every original step under one number,
\* between its original number and that plus m, in the original order.
C26_RepeatedInsertions ==
    pc = "done" =>
        LET rescanned == GetCurrentStepsDict(Listing(TopLevel(fs)), fs)
            N == Len(JsonLoads(fs[S_index_json].content).details.steps) - runs
            Current(j) == {n \in DOMAIN rescanned : HoldsOriginal(n, j)}
        IN  /\ DOMAIN rescanned = 1..(N + runs)
            /\ \A j \in 1..N :
                   /\ Current(j) # {}
                   /\ \A n \in Current(j) : j <= n /\ n <= j + runs
                   /\ \A i \in 1..(j - 1) : \A n \in Current(j) : \A m \in Current(i) :
                          m < n

====
